---- MODULE Spec2Model ----
(***************************************************************************)
(* Weekly production report generator: the dataset held by a session, the  *)
(* sidebar filter (dashboard.create_filters), the KPI cards                *)
(* (dashboard.calculate_kpis), the insight statements                      *)
(* (dashboard.generate_insights), the report metrics, aggregations and     *)
(* recommendations (reports._derive_report_metrics,                        *)
(* reports._build_aggregations, reports.generate_pdf_report), login, roles *)
(* and navigation (auth, app), the dataset loader page (data_loader), the  *)
(* data editor (editor), the audit log file (audit_logger), the data       *)
(* summary and the chat history of the chatbot page (chatbot), and two     *)
(* browser sessions of one server that load, edit, report and write audit  *)
(* records at the same time.                                               *)
(*                                                                         *)
(* A DataFrame is a sequence of rows (records keyed by column name).       *)
(* A timestamp is a number of ticks, TicksPerDay ticks to a calendar day.  *)
(* A float is a record: an exact fraction n/d in lowest terms ("num"), or  *)
(* one of the non-finite values numpy produces on a division by zero       *)
(* ("nan", "inf").                                                         *)
(***************************************************************************)
EXTENDS Integers, Sequences, FiniteSets, TLC

VARIABLES csv, df, dflt, date_range, selected, date_filtered, view,
          kpis, insights, metrics, daily, product, shift, operator, downtime,
          recommendations, report, pc,
          logged_in, user_info, page, df_index, df_range, audit_file, df_log,
          clock, messages, data_summary_context, sessions, cache, log_calls

\* the chat history and the last data summary of the chatbot page, the
\* browser sessions and the st.cache_data store of load_data when two
\* sessions are open, and the log_edit calls under way
extVars == <<messages, data_summary_context, sessions, cache, log_calls>>

\* the session beyond its dataset, the audit log file and the wall clock
sessVars == <<logged_in, user_info, page, df_index, df_range, audit_file,
              df_log, clock, extVars>>

vars == <<csv, df, dflt, date_range, selected, date_filtered, view,
          kpis, insights, metrics, daily, product, shift, operator, downtime,
          recommendations, report, pc, sessVars>>

(***************************************************************************)
(* Bounds of the model                                                     *)
(***************************************************************************)
\* rows in a CSV file
MaxRows == 2
\* largest unit count / weight / duration of a cell
MaxUnits == 2
\* last calendar day a row can be dated (days are 0..MaxDay)
MaxDay == 7
\* records the audit log can hold
MaxLog == 4
\* last second of the wall clock (seconds are 0..MaxClock)
MaxClock == 1
\* prompts a chat history can hold
MaxPrompts == 2

(***************************************************************************)
(* Values                                                                  *)
(***************************************************************************)
\* pd.Timedelta(days=1) in timestamp ticks: a row is dated at midnight or
\* later in its day
TicksPerDay == 2

\* a missing cell (pandas NaN / None)
Null == "<NA>"

\* a missing timestamp (also Series.min() / max() of an empty Date column)
NaT == -1

\* every categorical value of the model, in the order pandas sorts strings
NameOrder == <<"A", "B", "O1", "O2", "P1", "P2", "S1", "S2">>

\* every timestamp of the model, in ascending order
DateOrder == [i \in 1..((2 * MaxDay + 1) * TicksPerDay) |-> i - 1]

Day(t) == t \div TicksPerDay

SeqsUpTo(S, n) == UNION {[1..k -> S] : k \in 0..n}

Range(s) == {s[i] : i \in DOMAIN s}

\* the subsequence of s of the elements satisfying Keep, in order
RECURSIVE SelectRows(_, _)
SelectRows(s, keep) ==
  IF s = <<>> THEN <<>>
  ELSE IF Head(s) \in keep THEN <<Head(s)>> \o SelectRows(Tail(s), keep)
       ELSE SelectRows(Tail(s), keep)

(***************************************************************************)
(* Floats                                                                  *)
(***************************************************************************)
RECURSIVE GCD(_, _)
GCD(a, b) == IF b = 0 THEN a ELSE GCD(b, a % b)

Abs(x) == IF x < 0 THEN -x ELSE x

Num(n, d) ==
  LET g == GCD(Abs(n), Abs(d))
      s == IF d < 0 THEN -1 ELSE 1
  IN [kind |-> "num", n |-> s * (n \div g), d |-> s * (d \div g)]

Zero == [kind |-> "num", n |-> 0, d |-> 1]
One == [kind |-> "num", n |-> 1, d |-> 1]
NaN == [kind |-> "nan", n |-> 0, d |-> 0]
Inf == [kind |-> "inf", n |-> 1, d |-> 0]
NegInf == [kind |-> "inf", n |-> -1, d |-> 0]

IsFinite(x) == x.kind = "num"

\* numpy true division of two sums: n / 0 is not an exception but nan or inf
TrueDiv(n, d) ==
  IF d # 0 THEN Num(n, d)
  ELSE IF n = 0 THEN NaN
  ELSE IF n > 0 THEN Inf ELSE NegInf

FAdd(x, y) ==
  IF x.kind = "nan" \/ y.kind = "nan" THEN NaN
  ELSE IF x.kind = "inf" /\ y.kind = "inf" THEN (IF x.n = y.n THEN x ELSE NaN)
  ELSE IF x.kind = "inf" THEN x
  ELSE IF y.kind = "inf" THEN y
  ELSE Num(x.n * y.d + y.n * x.d, x.d * y.d)

RECURSIVE FSum(_)
FSum(s) == IF s = <<>> THEN Zero ELSE FAdd(Head(s), FSum(Tail(s)))

\* f"{x:.2%}": the percentage with two decimals, as hundredths of a percent
FormatPct(x) ==
  IF x.kind = "num"
  THEN [kind |-> "num", val |-> (2 * 10000 * x.n + x.d) \div (2 * x.d)]
  ELSE [kind |-> x.kind, val |-> 0]

(***************************************************************************)
(* reports._safe_div                                                       *)
(***************************************************************************)
\* a mutant of _safe_div: the division without the guard
UnguardedDiv(numerator, denominator) == TrueDiv(numerator, denominator)

_safe_div(numerator, denominator) ==
  IF denominator # 0 THEN TrueDiv(numerator, denominator) ELSE Zero

(***************************************************************************)
(* Column sums and group-by                                                *)
(***************************************************************************)
\* Series.sum() of a numeric column (0 for an empty frame)
RECURSIVE SumCol(_, _)
SumCol(rows, col) ==
  IF rows = <<>> THEN 0 ELSE Head(rows)[col] + SumCol(Tail(rows), col)

\* the rows whose cell in column col is k, in their order
RowsWith(rows, col, k) == SelectRows(rows, {r \in Range(rows) : r[col] = k})

\* the group keys of DataFrame.groupby(col): the distinct non-missing values
\* (dropna=True), sorted (sort=True); order lists the values of the column's
\* type in their sort order
GroupKeys(rows, col, missing, order) ==
  SelectRows(order, {rows[i][col] : i \in DOMAIN rows} \ {missing})

\* a mutant of GroupSums: only the first row of a group is counted
GroupSumsFirstOnly(rows, col, k) ==
  LET g == SubSeq(RowsWith(rows, col, k), 1, 1)
  IN [key |-> k,
      Actual_Production_Units |-> SumCol(g, "Actual_Production_Units"),
      Planned_Production_Units |-> SumCol(g, "Planned_Production_Units"),
      Downtime_Minutes |-> SumCol(g, "Downtime_Minutes"),
      Waste_Weight_kg |-> SumCol(g, "Waste_Weight_kg"),
      Raw_Material_Used_kg |-> SumCol(g, "Raw_Material_Used_kg")]

\* .agg({...: 'sum'}) of one group
GroupSums(rows, col, k) ==
  LET g == RowsWith(rows, col, k)
  IN [key |-> k,
      Actual_Production_Units |-> SumCol(g, "Actual_Production_Units"),
      Planned_Production_Units |-> SumCol(g, "Planned_Production_Units"),
      Downtime_Minutes |-> SumCol(g, "Downtime_Minutes"),
      Waste_Weight_kg |-> SumCol(g, "Waste_Weight_kg"),
      Raw_Material_Used_kg |-> SumCol(g, "Raw_Material_Used_kg")]

\* df.groupby(col).agg(sum).reset_index()
GroupBy(rows, col, missing, order) ==
  LET keys == GroupKeys(rows, col, missing, order)
  IN [i \in DOMAIN keys |-> GroupSums(rows, col, keys[i])]


(***************************************************************************)
(* Rows and CSV files                                                      *)
(***************************************************************************)
MkRow(date, sh, prod, op, reason, actual, planned, raw, waste, down, run) ==
  [Date |-> date, Shift |-> sh, Product_Name |-> prod,
   Machine_Operator_ID |-> op, Downtime_Reason |-> reason,
   Actual_Production_Units |-> actual, Planned_Production_Units |-> planned,
   Raw_Material_Used_kg |-> raw, Waste_Weight_kg |-> waste,
   Downtime_Minutes |-> down, Total_Time_Run_Minutes |-> run]

\* files whose rows differ in product, downtime reason (possibly missing),
\* produced units and downtime
AggRows ==
  {MkRow(0, "S1", p, "O1", r, a, 1, 1, 0, d, 1) :
     p \in {"P1", "P2"}, r \in {"A", "B", Null}, a \in 0..MaxUnits, d \in 0..1}

\* files whose rows differ in the six numeric columns, each zero or not
KpiRows ==
  {MkRow(0, "S1", "P1", "O1", "A", n[1], n[2], n[3], n[4], n[5], n[6]) :
     n \in [1..6 -> {0, 1}]}

\* the calendar days of the rows of a file: the first two and the last two
FilterDays == {0, 1, MaxDay - 1, MaxDay}

\* files whose rows differ in calendar day, time of day and shift
FilterRows ==
  {MkRow(d * TicksPerDay + h, s, "P1", "O1", "A", 1, 1, 1, 0, 1, 1) :
     d \in FilterDays, h \in 0..(TicksPerDay - 1), s \in {"S1", "S2"}}

\* files whose rows differ in calendar day (two days apart), shift and
\* downtime reason (possibly missing)
OptionRows ==
  {MkRow(d * TicksPerDay, s, "P1", "O1", r, 1, 1, 1, 0, 1, 1) :
     d \in {0, 2}, s \in {"S1", "S2"}, r \in {"A", Null}}

\* the calendar days of the rows of a file: either side of a week's end, and
\* two weeks on
TrendDays == {0, MaxDay - 1, MaxDay, 2 * MaxDay}

\* files whose rows differ in calendar day and produced units
TrendRows ==
  {MkRow(d * TicksPerDay, "S1", "P1", "O1", "A", a, 1, 1, 0, 1, 1) :
     d \in TrendDays, a \in 0..MaxUnits}

\* files whose rows differ in calendar day, time of day and produced units
WeekRows ==
  {MkRow(d * TicksPerDay + h, "S1", "P1", "O1", "A", a, 1, 1, 0, 1, 1) :
     d \in TrendDays, h \in 0..(TicksPerDay - 1), a \in 0..MaxUnits}

\* files whose rows differ in shift, produced units (of 20 planned), waste
\* (of 100 kg used) and downtime
RecRows ==
  {MkRow(0, s, "P1", "O1", "A", a, 20, 100, w, d, 1) :
     s \in {"S1", "S2"}, a \in {18, 20}, w \in {2, 4}, d \in {0, 2, 3}}

\* files whose rows differ in downtime reason (possibly missing)
EditRows ==
  {MkRow(0, "S1", "P1", "O1", r, 1, 1, 1, 0, 0, 1) : r \in {"A", Null}}

\* a mutant of ToDatetime: every conversion moves the timestamp a day on
ToDatetimeNextDay(t) == t + TicksPerDay

\* pd.to_datetime of a timestamp (the Date column is datetime64 from
\* load_data on): the timestamp itself
ToDatetime(t) == t

\* a file read_csv or the Date conversion raises on: a CSV without a Date
\* column, a file that cannot be read
BadFiles == {<<[Shift |-> "S1"]>>, <<[unreadable |-> TRUE]>>}

\* the RangeIndex of a frame just read: the positions of its rows
RangeIndex(d) == [i \in DOMAIN d |-> i - 1]

\* data_loader.load_data: Date parsed, Row_ID = position in the file; on any
\* exception the error is shown and an empty DataFrame is returned
load_data(file) ==
  IF \E i \in DOMAIN file : "Date" \notin DOMAIN file[i] THEN <<>>
  ELSE
  [i \in DOMAIN file |->
     [Row_ID |-> i - 1,
      Date |-> ToDatetime(file[i].Date),
      Shift |-> file[i].Shift,
      Product_Name |-> file[i].Product_Name,
      Machine_Operator_ID |-> file[i].Machine_Operator_ID,
      Downtime_Reason |-> file[i].Downtime_Reason,
      Actual_Production_Units |-> file[i].Actual_Production_Units,
      Planned_Production_Units |-> file[i].Planned_Production_Units,
      Raw_Material_Used_kg |-> file[i].Raw_Material_Used_kg,
      Waste_Weight_kg |-> file[i].Waste_Weight_kg,
      Downtime_Minutes |-> file[i].Downtime_Minutes,
      Total_Time_Run_Minutes |-> file[i].Total_Time_Run_Minutes]]

(***************************************************************************)
(* dashboard.create_filters                                                *)
(***************************************************************************)
MinOf(S) == CHOOSE x \in S : \A y \in S : x <= y
MaxOf(S) == CHOOSE x \in S : \A y \in S : x >= y

min_date(d) == Day(MinOf({d[i].Date : i \in DOMAIN d}))
max_date(d) == Day(MaxOf({d[i].Date : i \in DOMAIN d}))

\* timedelta(days=6)
DefaultSpanDays == 6

\* a mutant of default_start: no clamp to the first day of the dataset
default_start_unclamped(d) == max_date(d) - DefaultSpanDays

default_start(d) ==
  IF max_date(d) - DefaultSpanDays >= min_date(d)
  THEN max_date(d) - DefaultSpanDays
  ELSE min_date(d)

default_end(d) == max_date(d)

\* what st.date_input can return: a complete range inside
\* [min_value, max_value], or the single date of a selection in progress
DateInputs(d) ==
  {<<s, e>> : s \in min_date(d)..max_date(d), e \in min_date(d)..max_date(d)}
  \cup {<<s>> : s \in min_date(d)..max_date(d)}

\* a mutant of DateFilter: the end date is not extended by a day
DateFilterEndMidnight(d, dr) ==
  IF Len(dr) = 2
  THEN LET start_date == dr[1] * TicksPerDay
           end_date == dr[2] * TicksPerDay
       IN SelectRows(d, {r \in Range(d) :
                           r.Date >= start_date /\ r.Date < end_date})
  ELSE d

\* lines 83-89
DateFilter(d, dr) ==
  IF Len(dr) = 2
  THEN LET start_date == dr[1] * TicksPerDay
           end_date == (dr[2] + 1) * TicksPerDay
       IN SelectRows(d, {r \in Range(d) :
                           r.Date >= start_date /\ r.Date < end_date})
  ELSE d

\* Series.astype(str): a missing value becomes the string 'nan'
AsStr(x) == IF x = Null THEN "nan" ELSE x

\* a mutant of Options: the values of the whole dataset, whatever the
\* date range
OptionsOfDataset(d) ==
  [Shift |-> {df[i].Shift : i \in DOMAIN df},
   Product_Name |-> {df[i].Product_Name : i \in DOMAIN df},
   Machine_Operator_ID |-> {df[i].Machine_Operator_ID : i \in DOMAIN df},
   Downtime_Reason |-> {AsStr(df[i].Downtime_Reason) : i \in DOMAIN df}]

\* the options of the four multiselects (Series.unique() of the date-filtered
\* rows)
Options(d) ==
  [Shift |-> {d[i].Shift : i \in DOMAIN d},
   Product_Name |-> {d[i].Product_Name : i \in DOMAIN d},
   Machine_Operator_ID |-> {d[i].Machine_Operator_ID : i \in DOMAIN d},
   Downtime_Reason |-> {AsStr(d[i].Downtime_Reason) : i \in DOMAIN d}]

Selections(d) ==
  [Shift : SUBSET Options(d).Shift,
   Product_Name : SUBSET Options(d).Product_Name,
   Machine_Operator_ID : SUBSET Options(d).Machine_Operator_ID,
   Downtime_Reason : SUBSET Options(d).Downtime_Reason]

\* lines 105-110
CategoryFilter(d, sel) ==
  SelectRows(d, {r \in Range(d) :
                   /\ r.Shift \in sel.Shift
                   /\ r.Product_Name \in sel.Product_Name
                   /\ r.Machine_Operator_ID \in sel.Machine_Operator_ID
                   /\ AsStr(r.Downtime_Reason) \in sel.Downtime_Reason})

(***************************************************************************)
(* dashboard.calculate_kpis                                                *)
(***************************************************************************)
\* a mutant of yield_rate: the wasted share instead of the kept share
yield_rate_wasted(total_raw_used, total_waste) ==
  IF total_raw_used # 0 THEN TrueDiv(total_waste, total_raw_used) ELSE Zero

\* line 22
production_efficiency(total_production, total_planned) ==
  IF total_planned # 0 THEN TrueDiv(total_production, total_planned) ELSE Zero

\* line 27
yield_rate(total_raw_used, total_waste) ==
  IF total_raw_used # 0
  THEN TrueDiv(total_raw_used - total_waste, total_raw_used)
  ELSE Zero

\* line 28
utilization(total_run_time, total_downtime) ==
  IF total_run_time + total_downtime # 0
  THEN TrueDiv(total_run_time, total_run_time + total_downtime)
  ELSE Zero

\* the returned dict: counts as they are, rates formatted as percentages
calculate_kpis(d) ==
  LET total_production == SumCol(d, "Actual_Production_Units")
      total_planned == SumCol(d, "Planned_Production_Units")
      total_raw_used == SumCol(d, "Raw_Material_Used_kg")
      total_waste == SumCol(d, "Waste_Weight_kg")
      total_downtime == SumCol(d, "Downtime_Minutes")
      total_run_time == SumCol(d, "Total_Time_Run_Minutes")
  IN ("Total Production (Units)" :> total_production)
     @@ ("Overall Efficiency" :>
           FormatPct(production_efficiency(total_production, total_planned)))
     @@ ("Raw Material Yield" :>
           FormatPct(yield_rate(total_raw_used, total_waste)))
     @@ ("Total Waste (kg)" :> total_waste)
     @@ ("Total Downtime (min)" :> total_downtime)
     @@ ("Utilization Rate" :>
           FormatPct(utilization(total_run_time, total_downtime)))

(***************************************************************************)
(* reports._derive_report_metrics                                          *)
(***************************************************************************)
_derive_report_metrics(d) ==
  LET total_production == SumCol(d, "Actual_Production_Units")
      total_planned == SumCol(d, "Planned_Production_Units")
      total_raw_used == SumCol(d, "Raw_Material_Used_kg")
      total_waste == SumCol(d, "Waste_Weight_kg")
      total_downtime == SumCol(d, "Downtime_Minutes")
      total_run_time == SumCol(d, "Total_Time_Run_Minutes")
      dates == {d[i].Date : i \in DOMAIN d}
  IN [total_production |-> total_production,
      total_planned |-> total_planned,
      total_raw_used |-> total_raw_used,
      total_waste |-> total_waste,
      total_downtime |-> total_downtime,
      total_run_time |-> total_run_time,
      efficiency |-> _safe_div(total_production, total_planned),
      yield_rate |-> _safe_div(total_raw_used - total_waste, total_raw_used),
      utilization |-> _safe_div(total_run_time, total_run_time + total_downtime),
      date_min |-> IF dates = {} THEN NaT ELSE MinOf(dates),
      date_max |-> IF dates = {} THEN NaT ELSE MaxOf(dates),
      days_covered |-> Cardinality({Day(t) : t \in dates})]

(***************************************************************************)
(* reports._build_aggregations                                             *)
(***************************************************************************)
\* lines 69-81
build_daily(d) ==
  LET g == GroupBy(d, "Date", NaT, DateOrder)
  IN [i \in DOMAIN g |->
       [Date |-> g[i].key,
        Actual_Production_Units |-> g[i].Actual_Production_Units,
        Planned_Production_Units |-> g[i].Planned_Production_Units,
        Downtime_Minutes |-> g[i].Downtime_Minutes,
        Waste_Weight_kg |-> g[i].Waste_Weight_kg,
        Raw_Material_Used_kg |-> g[i].Raw_Material_Used_kg,
        Efficiency |-> _safe_div(g[i].Actual_Production_Units,
                                 g[i].Planned_Production_Units),
        Yield |-> _safe_div(g[i].Raw_Material_Used_kg - g[i].Waste_Weight_kg,
                            g[i].Raw_Material_Used_kg)]]

\* a mutant of ShareOf: each group's share of its own planned units
ShareOfPlanned(g, i) ==
  TrueDiv(g[i].Actual_Production_Units, SumCol(g, "Planned_Production_Units"))

\* line 96: product['Actual_Production_Units'] / <column sum>, no guard
ShareOf(g, i) ==
  TrueDiv(g[i].Actual_Production_Units, SumCol(g, "Actual_Production_Units"))

\* lines 83-96
build_product(d) ==
  LET g == GroupBy(d, "Product_Name", Null, NameOrder)
  IN [i \in DOMAIN g |->
       [Product_Name |-> g[i].key,
        Actual_Production_Units |-> g[i].Actual_Production_Units,
        Planned_Production_Units |-> g[i].Planned_Production_Units,
        Downtime_Minutes |-> g[i].Downtime_Minutes,
        Waste_Weight_kg |-> g[i].Waste_Weight_kg,
        Raw_Material_Used_kg |-> g[i].Raw_Material_Used_kg,
        Efficiency |-> _safe_div(g[i].Actual_Production_Units,
                                 g[i].Planned_Production_Units),
        Waste_Rate |-> _safe_div(g[i].Waste_Weight_kg,
                                 g[i].Raw_Material_Used_kg),
        Share |-> ShareOf(g, i)]]

\* lines 98-113
build_shift(d) ==
  LET g == GroupBy(d, "Shift", Null, NameOrder)
  IN [i \in DOMAIN g |->
       [Shift |-> g[i].key,
        Actual_Production_Units |-> g[i].Actual_Production_Units,
        Planned_Production_Units |-> g[i].Planned_Production_Units,
        Downtime_Minutes |-> g[i].Downtime_Minutes,
        Waste_Weight_kg |-> g[i].Waste_Weight_kg,
        Raw_Material_Used_kg |-> g[i].Raw_Material_Used_kg,
        Efficiency |-> _safe_div(g[i].Actual_Production_Units,
                                 g[i].Planned_Production_Units),
        Waste_Rate |-> _safe_div(g[i].Waste_Weight_kg,
                                 g[i].Raw_Material_Used_kg),
        Downtime_per_Unit |-> _safe_div(g[i].Downtime_Minutes,
                                        g[i].Actual_Production_Units)]]

\* lines 115-122
build_operator(d) ==
  LET g == GroupBy(d, "Machine_Operator_ID", Null, NameOrder)
  IN [i \in DOMAIN g |->
       [Machine_Operator_ID |-> g[i].key,
        Actual_Production_Units |-> g[i].Actual_Production_Units,
        Planned_Production_Units |-> g[i].Planned_Production_Units,
        Downtime_Minutes |-> g[i].Downtime_Minutes,
        Efficiency |-> _safe_div(g[i].Actual_Production_Units,
                                 g[i].Planned_Production_Units)]]

\* line 124, before the sort: groupby('Downtime_Reason')['Downtime_Minutes'].sum()
downtime_by_reason(d) ==
  LET g == GroupBy(d, "Downtime_Reason", Null, NameOrder)
  IN [i \in DOMAIN g |->
       [Downtime_Reason |-> g[i].key,
        Downtime_Minutes |-> g[i].Downtime_Minutes]]

\* a mutant of sort_values: ascending order
sort_values_ascending(s) ==
  {t \in [DOMAIN s -> Range(s)] :
     /\ Range(t) = Range(s)
     /\ \A i, j \in DOMAIN t :
          i < j => t[i].Downtime_Minutes <= t[j].Downtime_Minutes}

\* Series.sort_values(ascending=False) with the default kind='quicksort',
\* which is not a stable sort: every descending arrangement of the groups is
\* a possible result
sort_values(s) ==
  {t \in [DOMAIN s -> Range(s)] :
     /\ Range(t) = Range(s)
     /\ \A i, j \in DOMAIN t :
          i < j => t[i].Downtime_Minutes >= t[j].Downtime_Minutes}

(***************************************************************************)
(* dashboard.generate_insights                                             *)
(***************************************************************************)
\* the days of a calendar week
DaysPerWeek == 7

\* a mutant of WeekOf: the bins close at midnight at the start of Sunday,
\* so rows later on a Sunday fall in the next week
WeekOfMidnightEdge(t) ==
  (t + TicksPerDay - 1) \div (DaysPerWeek * TicksPerDay)

\* the calendar week (Monday to Sunday, the bin of resample('W')) of a
\* timestamp; day 0 of the model is a Monday
WeekOf(t) == Day(t) \div DaysPerWeek

\* df.set_index('Date').resample('W').agg({'Actual_Production_Units': 'sum'}):
\* one bucket for every week from the first dated row's to the last dated
\* row's, a week without rows summing to 0
resample_weekly(d) ==
  IF d = <<>> THEN <<>>
  ELSE LET weeks == {WeekOf(d[i].Date) : i \in DOMAIN d}
           first == MinOf(weeks)
           last == MaxOf(weeks)
       IN [k \in 1..(last - first + 1) |->
             SumCol(SelectRows(d, {r \in Range(d) :
                                     WeekOf(r.Date) = first + k - 1}),
                    "Actual_Production_Units")]

\* f"{x:.1f}" of a finite x >= 0, in tenths (a tie goes to the even digit)
Format1f(x) ==
  LET t == (10 * x.n) \div x.d
      r == 10 * x.n - t * x.d
  IN IF 2 * r > x.d \/ (2 * r = x.d /\ t % 2 = 1) THEN t + 1 ELSE t

FAbs(x) == [x EXCEPT !.n = Abs(@)]

\* the texts of the statements, without the values they are filled with
Sentinel == "No data available to generate insights."
TrendChange == "Production Trend: Total output has {trend} by {change}%"
TrendZero == "Production Trend: Comparison to previous period is not possible"
TrendShort == "Production Trend: Only one or less weeks of data available"
HighestVolume == "Highest Volume: {best_product}"
ActionableInsight == "Actionable Insight: The primary cause is {top_downtime}"

\* a statement: its text, the name and the number it is filled with
Stmt(s, name, num) == [stmt |-> s, name |-> name, num |-> num]

\* a mutant of trend_statement: no change is reported as a decrease
trend_statement_strict(weekly) ==
  IF Len(weekly) >= 2
  THEN LET last_week_prod == weekly[Len(weekly)]
           prev_week_prod == weekly[Len(weekly) - 1]
           change == Num((last_week_prod - prev_week_prod) * 100,
                         prev_week_prod)
       IN IF prev_week_prod # 0
          THEN Stmt(TrendChange,
                    IF change.n > 0 THEN "increased" ELSE "decreased",
                    Format1f(FAbs(change)))
          ELSE Stmt(TrendZero, "", 0)
  ELSE Stmt(TrendShort, "", 0)

\* lines 127-139
trend_statement(weekly) ==
  IF Len(weekly) >= 2
  THEN LET last_week_prod == weekly[Len(weekly)]
           prev_week_prod == weekly[Len(weekly) - 1]
           change == Num((last_week_prod - prev_week_prod) * 100,
                         prev_week_prod)
       IN IF prev_week_prod # 0
          THEN Stmt(TrendChange,
                    IF change.n >= 0 THEN "increased" ELSE "decreased",
                    Format1f(FAbs(change)))
          ELSE Stmt(TrendZero, "", 0)
  ELSE Stmt(TrendShort, "", 0)

\* df.groupby(col)[val].sum(): a Series of sums indexed by the group keys
GroupSeries(d, col, val) ==
  LET g == GroupBy(d, col, Null, NameOrder)
  IN [i \in DOMAIN g |-> [key |-> g[i].key, val |-> g[i][val]]]

\* a mutant of sort_series: ascending order
sort_series_ascending(s) ==
  {t \in [DOMAIN s -> Range(s)] :
     /\ Range(t) = Range(s)
     /\ \A i, j \in DOMAIN t : i < j => t[i].val <= t[j].val}

\* Series.sort_values(ascending=False) (quicksort, not stable): every
\* descending arrangement is a possible result
sort_series(s) ==
  {t \in [DOMAIN s -> Range(s)] :
     /\ Range(t) = Range(s)
     /\ \A i, j \in DOMAIN t : i < j => t[i].val >= t[j].val}

\* lines 121-156: the statements of a view with rows
insight_statements(d) ==
  LET prod_summary ==
        sort_series(GroupSeries(d, "Product_Name", "Actual_Production_Units"))
      downtime_summary ==
        sort_series(GroupSeries(d, "Downtime_Reason", "Downtime_Minutes"))
  IN {<<trend_statement(resample_weekly(d))>>
        \o (IF ps # <<>> THEN <<Stmt(HighestVolume, ps[1].key, 0)>>
            ELSE <<>>)
        \o (IF ds # <<>>
            THEN <<Stmt(ActionableInsight, ds[1].key, ds[1].val)>>
            ELSE <<>>) :
      ps \in prod_summary, ds \in downtime_summary}

\* a mutant of generate_insights: no early return on an empty view
generate_insights_unguarded(d) == insight_statements(d)

\* lines 116-156: the statements the returned text joins with " | ", as the
\* set of texts the call can return
generate_insights(d) ==
  IF d = <<>> THEN {<<Stmt(Sentinel, "", 0)>>} ELSE insight_statements(d)

(***************************************************************************)
(* reports.generate_pdf_report / generate_docx_report: recommendations     *)
(***************************************************************************)
\* the literals 0.95, 0.97 and 1.2
EfficiencyTarget == Num(19, 20)
YieldTarget == Num(97, 100)
ShiftSpread == Num(6, 5)

\* x < y for floats; False when either is nan
FLess(x, y) == IsFinite(x) /\ IsFinite(y) /\ x.n * y.d < y.n * x.d

FMul(x, y) ==
  IF IsFinite(x) /\ IsFinite(y) THEN Num(x.n * y.n, x.d * y.d) ELSE NaN

\* Series.max() and Series.mean(): nan for an empty Series
FMax(s) ==
  IF s = <<>> THEN NaN
  ELSE CHOOSE x \in Range(s) : \A y \in Range(s) : ~FLess(x, y)

FMean(s) ==
  IF s = <<>> THEN NaN ELSE FMul(FSum(s), Num(1, Len(s)))

\* the texts of the recommendations
ReviewPlanning == "Review planning accuracy and line balancing"
InvestigateLosses == "Investigate material losses"
FocusDowntime == "Focus downtime reduction on {top_reason}"
StandardizeShifts == "Standardize best practices across shifts"
MaintainPractices == "Maintain current operating practices"

\* a recommendation: its text and the name it is filled with
Rec(text, name) == [text |-> text, name |-> name]

\* a mutant of efficiency_low: the target itself counts as low
efficiency_low_inclusive(m) == ~FLess(EfficiencyTarget, m.efficiency)

\* line 350: metrics['efficiency'] < 0.95
efficiency_low(m) == FLess(m.efficiency, EfficiencyTarget)

\* lines 349-360
build_recommendations(m, dt, sh) ==
  LET dpu == [i \in DOMAIN sh |-> sh[i].Downtime_per_Unit]
      top_reason ==
        IF dt # <<>> THEN dt[1].Downtime_Reason ELSE "unknown causes"
      recs ==
        (IF efficiency_low(m) THEN <<Rec(ReviewPlanning, "")>> ELSE <<>>)
        \o (IF FLess(m.yield_rate, YieldTarget)
            THEN <<Rec(InvestigateLosses, "")>> ELSE <<>>)
        \o (IF m.total_downtime > 0
            THEN <<Rec(FocusDowntime, top_reason)>> ELSE <<>>)
        \o (IF FLess(FMul(FMean(dpu), ShiftSpread), FMax(dpu))
            THEN <<Rec(StandardizeShifts, "")>> ELSE <<>>)
  IN IF recs = <<>> THEN <<Rec(MaintainPractices, "")>> ELSE recs

(***************************************************************************)
(* State                                                                   *)
(***************************************************************************)
\* a local that has not been computed in the current render
None == <<>>

\* the browser sessions open at the same time
Sessions == {1, 2}

\* a session that has loaded nothing and rendered nothing
InitSessions ==
  [s \in Sessions |->
     [df |-> <<>>, df_index |-> <<>>, df_range |-> TRUE,
      kpis |-> None, product |-> <<>>, downtime |-> <<>>]]

\* the account both browsers are logged in with
SessionUser == "admin"

\* no log_edit call is under way
InitLogCalls ==
  [s \in Sessions |-> [at |-> "idle", write_header |-> FALSE, new_log |-> None]]

InitWith(files) ==
  /\ csv \in files
  /\ df = <<>>
  /\ dflt = None
  /\ date_range = None
  /\ selected = None
  /\ date_filtered = <<>>
  /\ view = <<>>
  /\ kpis = None
  /\ insights = None
  /\ metrics = None
  /\ daily = <<>>
  /\ product = <<>>
  /\ shift = <<>>
  /\ operator = <<>>
  /\ downtime = <<>>
  /\ recommendations = None
  /\ report = None
  /\ pc = "start"
  /\ logged_in = FALSE
  /\ user_info = None
  /\ page = "Login"
  /\ df_index = <<>>
  /\ df_range = TRUE
  /\ audit_file = <<>>
  /\ df_log = <<>>
  /\ clock = 0
  /\ messages = None
  /\ data_summary_context = None
  /\ sessions = InitSessions
  /\ cache = <<>>
  /\ log_calls = InitLogCalls

\* data_loader_page: st.session_state['df'] = load_data(file)
LoadData ==
  /\ pc = "start"
  /\ df' = load_data(csv)
  /\ df_index' = RangeIndex(df')
  /\ df_range' = TRUE
  /\ pc' = "loaded"
  /\ UNCHANGED <<logged_in, user_info, page, audit_file, df_log, clock>>
  /\ UNCHANGED <<csv, dflt, date_range, selected, date_filtered, view,
                 kpis, insights, metrics, daily, product, shift, operator,
                 downtime, recommendations, report, extVars>>

\* one run of create_filters with the widget values dr and sel; the page
\* then recomputes everything it shows from the new view
FilterStep(dr, sel) ==
  /\ df # <<>>
  /\ df' = [i \in DOMAIN df |-> [df[i] EXCEPT !.Date = ToDatetime(@)]]
  /\ dflt' = <<default_start(df'), default_end(df')>>
  /\ date_range' = dr
  /\ date_filtered' = DateFilter(df', dr)
  /\ selected' = sel
  /\ view' = CategoryFilter(date_filtered', sel)
  /\ kpis' = None
  /\ insights' = None
  /\ metrics' = None
  /\ daily' = <<>>
  /\ product' = <<>>
  /\ shift' = <<>>
  /\ operator' = <<>>
  /\ downtime' = <<>>
  /\ recommendations' = None
  /\ report' = None
  /\ pc' = "filtered"
  /\ UNCHANGED <<csv, sessVars>>

\* create_filters on the first render after the user has set the widgets
CreateFilters ==
  /\ pc = "loaded"
  /\ df # <<>>
  /\ \E dr \in DateInputs(df) :
       \E sel \in Selections(DateFilter(df, dr)) : FilterStep(dr, sel)

\* create_filters with the default date range and the shifts the user picks
\* (all of them on the first render, none when the multiselect is cleared)
CreateFiltersShifts ==
  /\ pc = "loaded"
  /\ df # <<>>
  /\ LET dr == <<default_start(df), default_end(df)>>
         opts == Options(DateFilter(df, dr))
     IN \E S \in SUBSET opts.Shift :
          FilterStep(dr, [opts EXCEPT !.Shift = S])

\* create_filters with every category selected and a date range from one
\* day of the dataset to another
CreateFiltersDates ==
  /\ pc = "loaded"
  /\ df # <<>>
  /\ LET days == {Day(df[i].Date) : i \in DOMAIN df}
     IN \E s \in days, e \in days :
          FilterStep(<<s, e>>, Options(DateFilter(df, <<s, e>>)))

\* the page is rendered again with the widgets untouched (Streamlit reruns
\* the script and the widgets return the values they hold)
Rerun ==
  /\ pc \in {"filtered", "kpis", "metrics", "aggs"}
  /\ FilterStep(date_range, selected)

\* reports_page lines 614-615: the KPIs and the insight text of the view
CalculateKpis ==
  /\ pc = "filtered"
  /\ kpis' = calculate_kpis(view)
  /\ insights' \in generate_insights(view)
  /\ pc' = "kpis"
  /\ UNCHANGED <<csv, df, dflt, date_range, selected, date_filtered, view,
                 metrics, daily, product, shift, operator, downtime,
                 recommendations, report, sessVars>>

\* generate_pdf_report line 161
DeriveReportMetrics ==
  /\ pc = "kpis"
  /\ metrics' = _derive_report_metrics(view)
  /\ pc' = "metrics"
  /\ UNCHANGED <<csv, df, dflt, date_range, selected, date_filtered, view,
                 kpis, insights, daily, product, shift, operator, downtime,
                 recommendations, report, sessVars>>

\* generate_pdf_report lines 162 and 349-362 (generate_docx_report lines 397
\* and 556-569): the aggregations and the recommendations drawn from them
BuildAggregations ==
  /\ pc = "metrics"
  /\ daily' = build_daily(view)
  /\ product' = build_product(view)
  /\ shift' = build_shift(view)
  /\ operator' = build_operator(view)
  /\ downtime' \in sort_values(downtime_by_reason(view))
  /\ recommendations' = build_recommendations(metrics, downtime', shift')
  /\ pc' = "aggs"
  /\ UNCHANGED <<csv, df, dflt, date_range, selected, date_filtered, view,
                 kpis, insights, metrics, report, sessVars>>

\* generate_pdf_report lines 176-187 (generate_docx_report lines 408-413):
\* the Data Coverage paragraph, or the ValueError Timestamp.strftime raises
\* on NaT
data_coverage(m, d) ==
  IF m.date_min = NaT \/ m.date_max = NaT
  THEN [raised |-> "ValueError"]
  ELSE [period |-> <<Day(m.date_min), Day(m.date_max)>>,
        days_covered |-> m.days_covered,
        rows |-> Len(d),
        shifts |-> Cardinality({d[i].Shift : i \in DOMAIN d} \ {Null}),
        products |->
          Cardinality({d[i].Product_Name : i \in DOMAIN d} \ {Null}),
        operators |->
          Cardinality({d[i].Machine_Operator_ID : i \in DOMAIN d} \ {Null})]

\* generate_pdf_report from line 164 on: the report is written out from the
\* metrics and the aggregations, or the call ends in the exception
GenerateReport ==
  /\ pc = "aggs"
  /\ report' = data_coverage(metrics, view)
  /\ pc' = "report"
  /\ UNCHANGED <<csv, df, dflt, date_range, selected, date_filtered, view,
                 kpis, insights, metrics, daily, product, shift, operator,
                 downtime, recommendations, sessVars>>

(***************************************************************************)
(* Gemini_CB/auth.py and app.py: login, roles and navigation               *)
(***************************************************************************)
\* the accounts of users.json: one of each role
Users ==
  {[username |-> "viewer", role |-> "Viewer"],
   [username |-> "analyst", role |-> "Analyst"],
   [username |-> "admin", role |-> "Admin"]}

Roles == {"Viewer", "Analyst", "Admin"}

\* what a caller can pass as the required role
RequiredRoles == Roles \cup {"Owner"}

\* a mutant of check_role: an Admin is no longer taken for an Analyst
check_role_analyst_only(session_logged_in, session_user_info, required_role) ==
  IF ~session_logged_in THEN FALSE
  ELSE LET user_role == session_user_info.role
       IN IF required_role = "Admin" THEN user_role = "Admin"
          ELSE IF required_role = "Analyst" THEN user_role \in {"Analyst"}
          ELSE IF required_role = "Viewer"
          THEN user_role \in {"Admin", "Analyst", "Viewer"}
          ELSE FALSE

\* auth.check_role over the session's 'logged_in' and 'user_info'
check_role(session_logged_in, session_user_info, required_role) ==
  IF ~session_logged_in THEN FALSE
  ELSE LET user_role == session_user_info.role
       IN IF required_role = "Admin" THEN user_role = "Admin"
          ELSE IF required_role = "Analyst"
          THEN user_role \in {"Admin", "Analyst"}
          ELSE IF required_role = "Viewer"
          THEN user_role \in {"Admin", "Analyst", "Viewer"}
          ELSE FALSE

\* a mutant of nav_buttons: the Reports button asks for an Admin
nav_buttons_reports_admin ==
  ("Dashboard" :> "Viewer")
  @@ ("AI Chatbot (Beta)" :> "Analyst")
  @@ ("Load & Manage Dataset" :> "Analyst")
  @@ ("Data Editor" :> "Admin")
  @@ ("Reports" :> "Admin")
  @@ ("Audit Logs" :> "Admin")
  @@ ("Export Database" :> "Analyst")

\* a mutant of nav_buttons: the loader button is shown to every role
nav_buttons_loader_viewer ==
  ("Dashboard" :> "Viewer")
  @@ ("AI Chatbot (Beta)" :> "Analyst")
  @@ ("Load & Manage Dataset" :> "Viewer")
  @@ ("Data Editor" :> "Admin")
  @@ ("Reports" :> "Analyst")
  @@ ("Audit Logs" :> "Admin")
  @@ ("Export Database" :> "Analyst")

\* app.py lines 86-94: the role each sidebar button asks for
nav_buttons ==
  ("Dashboard" :> "Viewer")
  @@ ("AI Chatbot (Beta)" :> "Analyst")
  @@ ("Load & Manage Dataset" :> "Analyst")
  @@ ("Data Editor" :> "Admin")
  @@ ("Reports" :> "Analyst")
  @@ ("Audit Logs" :> "Admin")
  @@ ("Export Database" :> "Analyst")

Labels == DOMAIN nav_buttons

\* the role each page function asks check_role for in its first lines:
\* dashboard.py line 178, chatbot.py line 85, editor.py line 13,
\* reports.py line 600, export_utils.py line 12
dashboard_page_role == "Viewer"
chatbot_page_role == "Analyst"
editor_page_role == "Admin"
reports_page_role == "Analyst"
export_page_role == "Analyst"

\* PAGES with the check_role call of each page function; data_loader_page
\* and audit_log_page make none
page_role ==
  ("Dashboard" :> dashboard_page_role)
  @@ ("AI Chatbot (Beta)" :> chatbot_page_role)
  @@ ("Data Editor" :> editor_page_role)
  @@ ("Reports" :> reports_page_role)
  @@ ("Export Database" :> export_page_role)

\* the page function of label goes past its role check for this session
page_admits(session_logged_in, session_user_info, label) ==
  label \in DOMAIN page_role =>
    check_role(session_logged_in, session_user_info, page_role[label])

\* the login form is submitted with the password of account u (a wrong
\* password changes nothing)
Authenticate ==
  /\ page = "Login"
  /\ ~logged_in
  /\ \E u \in Users :
       /\ logged_in' = TRUE
       /\ user_info' = u
       /\ page' = "Dashboard"
  /\ UNCHANGED <<csv, df, dflt, date_range, selected, date_filtered, view,
                 kpis, insights, metrics, daily, product, shift, operator,
                 downtime, recommendations, report, pc, extVars,
                 df_index, df_range, audit_file, df_log, clock>>

\* the Logout button: auth.logout, then the rerun sets 'page' again
\* (app.py lines 22-23)
Logout ==
  /\ logged_in
  /\ logged_in' = FALSE
  /\ user_info' = None
  /\ df' = <<>>
  /\ df_index' = <<>>
  /\ df_range' = TRUE
  /\ page' = "Login"
  /\ df_log' = <<>>
  /\ UNCHANGED <<csv, dflt, date_range, selected, date_filtered, view,
                 kpis, insights, metrics, daily, product, shift, operator,
                 downtime, recommendations, report, pc, extVars,
                 audit_file, clock>>

\* one of the sidebar buttons labels, shown only to a role it admits, is
\* clicked; the page rendered before is gone, and with it the log it had read
NavigateTo(labels) ==
  /\ logged_in
  /\ \E label \in labels :
       /\ check_role(logged_in, user_info, nav_buttons[label])
       /\ page' = label
  /\ df_log' = <<>>
  /\ UNCHANGED <<csv, df, dflt, date_range, selected, date_filtered, view,
                 kpis, insights, metrics, daily, product, shift, operator,
                 downtime, recommendations, report, pc, extVars,
                 logged_in, user_info, df_index, df_range, audit_file, clock>>

Navigate == NavigateTo(Labels)

\* the buttons of the loader and of the chatbot
NavigateChat == NavigateTo({"Load & Manage Dataset", "AI Chatbot (Beta)"})

\* the buttons of the pages that load, edit and audit the dataset
NavigateData ==
  NavigateTo({"Load & Manage Dataset", "Data Editor", "Audit Logs"})

\* the files a user can point the loader at
SessionFiles == SeqsUpTo(EditRows, MaxRows) \cup BadFiles

\* data_loader_page lines 48-50, 56-68, 70-74: the reload button, an upload
\* or the default button on file; whatever load_data returns becomes the
\* dataset
LoadDatasetOf(file) ==
  /\ page = "Load & Manage Dataset"
  /\ logged_in
  /\ df' = load_data(file)
  /\ df_index' = RangeIndex(df')
  /\ df_range' = TRUE
  /\ UNCHANGED <<csv, dflt, date_range, selected, date_filtered, view,
                 kpis, insights, metrics, daily, product, shift, operator,
                 downtime, recommendations, report, pc, extVars,
                 logged_in, user_info, page, audit_file, df_log, clock>>

LoadDataset == \E file \in SessionFiles : LoadDatasetOf(file)

(***************************************************************************)
(* audit_logger.py: the audit log file                                     *)
(***************************************************************************)
\* a missing numeric cell (NaN)
NaNCell == -1

TextCols ==
  {"Shift", "Product_Name", "Machine_Operator_ID", "Downtime_Reason"}

\* str(v) of a cell of column col
Str(col, v) ==
  IF col \in TextCols THEN AsStr(v)
  ELSE IF col = "Date" /\ v = NaT THEN "NaT"
  ELSE IF v = NaNCell THEN "nan"
  ELSE ToString(v)

\* the text DataFrame.to_csv writes for a cell: nothing for a missing value
ToCsv(col, v) ==
  IF col \in TextCols THEN (IF v = Null THEN "" ELSE v)
  ELSE IF v = NaNCell THEN ""
  ELSE ToString(v)

\* the header line: AUDIT_COLS
AuditHeader ==
  [user |-> "user", timestamp |-> "timestamp", row_id |-> "row_id",
   column_name |-> "column_name", old_value |-> "old_value",
   new_value |-> "new_value"]

\* editor.py line 26: df_original.columns.tolist()[1:]
editable_cols ==
  <<"Date", "Shift", "Product_Name", "Machine_Operator_ID", "Downtime_Reason",
    "Actual_Production_Units", "Planned_Production_Units",
    "Raw_Material_Used_kg", "Waste_Weight_kg", "Downtime_Minutes",
    "Total_Time_Run_Minutes">>

\* a mutant of log_edit: the values are compared, not their string forms
log_edit_by_value(file, user, now, row_id, column, old_value, new_value) ==
  IF old_value = new_value THEN file
  ELSE file \o (IF file = <<>> THEN <<AuditHeader>> ELSE <<>>)
            \o <<[user |-> user,
                  timestamp |-> ToString(now),
                  row_id |-> ToCsv("Row_ID", row_id),
                  column_name |-> column,
                  old_value |-> ToCsv(column, old_value),
                  new_value |-> ToCsv(column, new_value)]>>

\* a mutant of log_edit: the file is opened with mode='w'
log_edit_truncating(file, user, now, row_id, column, old_value, new_value) ==
  IF Str(column, old_value) = Str(column, new_value) THEN file
  ELSE <<AuditHeader,
         [user |-> user,
          timestamp |-> ToString(now),
          row_id |-> ToCsv("Row_ID", row_id),
          column_name |-> column,
          old_value |-> ToCsv(column, old_value),
          new_value |-> ToCsv(column, new_value)]>>

\* log_edit at wall-clock time now: the lines of the file after the call (a
\* file that does not exist and an empty file are both <<>>)
log_edit(file, user, now, row_id, column, old_value, new_value) ==
  IF Str(column, old_value) = Str(column, new_value) THEN file
  ELSE LET new_log ==
             [user |-> user,
              timestamp |-> ToString(now),
              row_id |-> ToCsv("Row_ID", row_id),
              column_name |-> column,
              old_value |-> ToCsv(column, old_value),
              new_value |-> ToCsv(column, new_value)]
           write_header == file = <<>>
       IN file \o (IF write_header THEN <<AuditHeader>> ELSE <<>>)
               \o <<new_log>>

\* pd.to_datetime of a timestamp text
ParseTime(text) == CHOOSE t \in 0..MaxClock : ToString(t) = text

\* load_audit_logs: the records of the file, newest first (sort_values with
\* the default sort, which is not stable), as the set of frames the call can
\* return; the file is only read
load_audit_logs(file) ==
  IF file = <<>> THEN {<<>>}
  ELSE LET df_read == Tail(file)
       IN {t \in {[i \in DOMAIN df_read |-> df_read[p[i]]] :
                    p \in Permutations(DOMAIN df_read)} :
             \A i, j \in DOMAIN t :
               i < j => ParseTime(t[i].timestamp) >= ParseTime(t[j].timestamp)}

(***************************************************************************)
(* editor.py: the data editor                                              *)
(***************************************************************************)
\* what the user leaves in a Downtime_Reason cell they edit: nothing, or the
\* text 'nan'
TypedReasons == {Null, "nan"}

\* a row added in the editor: the disabled columns stay empty, the others
\* hold what the user typed
AddedRow ==
  [Row_ID |-> NaNCell, Date |-> NaT, Shift |-> Null, Product_Name |-> "P1",
   Machine_Operator_ID |-> Null, Downtime_Reason |-> Null,
   Actual_Production_Units |-> 1, Planned_Production_Units |-> 1,
   Raw_Material_Used_kg |-> 1, Waste_Weight_kg |-> 0,
   Downtime_Minutes |-> 0, Total_Time_Run_Minutes |-> 1]

\* s without its k-th element (s itself when k = 0)
Without(s, k) == [i \in 1..(Len(s) - (IF k = 0 THEN 0 ELSE 1)) |->
                    IF k = 0 \/ i < k THEN s[i] ELSE s[i + 1]]

\* the index labels an added row can get: the next of a RangeIndex (the
\* index column is hidden); otherwise the label the user types, new or not
AddedLabels(idx, is_range) ==
  IF is_range THEN {idx[Len(idx)] + 1} ELSE 0..MaxRows

\* st.data_editor(df_original, num_rows="dynamic", disabled=[...]): the
\* tables the widget can return. Cells of the enabled columns are edited
\* (those of Downtime_Reason here), then a row is added
\* (df.loc[label, :] = new_row, which overwrites the row of an existing
\* label) or a row is deleted (the labels of the others stay).
EditedTables(d, idx, is_range) ==
  LET Cells == {e \in [DOMAIN d -> TypedReasons \cup {"A"}] :
                  \A i \in DOMAIN d :
                    e[i] \in TypedReasons \cup {d[i].Downtime_Reason}}
      Edit(e) == [i \in DOMAIN d |-> [d[i] EXCEPT !.Downtime_Reason = e[i]]]
      Add(rows, label) ==
        IF \E i \in DOMAIN idx : idx[i] = label
        THEN [rows |-> [i \in DOMAIN rows |->
                          IF idx[i] = label THEN AddedRow ELSE rows[i]],
              index |-> idx, added |-> TRUE, deleted |-> FALSE]
        ELSE [rows |-> Append(rows, AddedRow), index |-> Append(idx, label),
              added |-> TRUE, deleted |-> FALSE]
  IN {[rows |-> Without(Edit(e), k), index |-> Without(idx, k),
       added |-> FALSE, deleted |-> k # 0] :
        e \in Cells, k \in 0..Len(d)}
     \cup {Add(Edit(e), label) :
             e \in Cells, label \in AddedLabels(idx, is_range)}

\* df_original.loc[row_index]
Loc(d, idx, label) == d[CHOOSE i \in DOMAIN idx : idx[i] = label]

\* lines 43-55 for one row: the file after the columns from position j on
RECURSIVE LogCols(_, _, _, _, _, _)
LogCols(file, user, now, old_row, row, j) ==
  IF j > Len(editable_cols) THEN file
  ELSE LogCols(log_edit(file, user, now, row.Row_ID, editable_cols[j],
                        old_row[editable_cols[j]], row[editable_cols[j]]),
               user, now, old_row, row, j + 1)

\* lines 42-55: the file after the rows from position i on, and whether the
\* lookup of a label df_original does not have (KeyError) ended the loop
RECURSIVE LogRows(_, _, _, _, _, _, _)
LogRows(file, user, now, d, idx, edited, i) ==
  IF i > Len(edited.rows) THEN [file |-> file, raised |-> FALSE]
  ELSE IF \A k \in DOMAIN idx : idx[k] # edited.index[i]
  THEN [file |-> file, raised |-> TRUE]
  ELSE LogRows(LogCols(file, user, now, Loc(d, idx, edited.index[i]),
                       edited.rows[i], 1),
               user, now, d, idx, edited, i + 1)

\* 'Apply Changes and Save' on the table edited: the audit records are
\* written row by row; the edited table becomes the dataset when the loop
\* ends with a change found
ApplyChangesOf(edited) ==
  LET res == LogRows(audit_file, user_info.username, clock, df, df_index,
                     edited, 1)
      changes_found == res.file # audit_file
  IN /\ UNCHANGED <<csv, dflt, date_range, selected, date_filtered, view,
                    kpis, insights, metrics, daily, product, shift, operator,
                    downtime, recommendations, report, pc, extVars,
                    logged_in, user_info, page, df_log, clock>>
     /\ Len(res.file) <= MaxLog + 1
     /\ audit_file' = res.file
     /\ IF ~res.raised /\ changes_found
        THEN /\ df' = edited.rows
             /\ df_index' = edited.index
             \* the index left by DataFrame.drop is a RangeIndex or not,
             \* with the pandas version and the rows dropped
             /\ df_range' \in (IF edited.deleted THEN BOOLEAN
                               ELSE {df_range})
        ELSE UNCHANGED <<df, df_index, df_range>>

\* editor_page with the button pressed
ApplyChanges ==
  /\ page = "Data Editor"
  /\ check_role(logged_in, user_info, "Admin")
  /\ df # <<>>
  /\ \E edited \in EditedTables(df, df_index, df_range) :
       ApplyChangesOf(edited)

\* audit_log_page: the log is read and shown
AuditLogPage ==
  /\ page = "Audit Logs"
  /\ df_log' \in load_audit_logs(audit_file)
  /\ UNCHANGED <<csv, df, dflt, date_range, selected, date_filtered, view,
                 kpis, insights, metrics, daily, product, shift, operator,
                 downtime, recommendations, report, pc, extVars,
                 logged_in, user_info, page, df_index, df_range, audit_file,
                 clock>>

\* a second passes on the wall clock
Tick ==
  /\ clock < MaxClock
  /\ clock' = clock + 1
  /\ UNCHANGED <<csv, df, dflt, date_range, selected, date_filtered, view,
                 kpis, insights, metrics, daily, product, shift, operator,
                 downtime, recommendations, report, pc, extVars,
                 logged_in, user_info, page, df_index, df_range, audit_file,
                 df_log>>

(***************************************************************************)
(* chatbot.py: the data summary and the chat history                       *)
(***************************************************************************)
\* a mutant of to_datetime_coerce: the time of day is dropped
to_datetime_coerce_normalized(t) ==
  IF t \in Range(DateOrder) THEN Day(t) * TicksPerDay ELSE NaT

\* pd.to_datetime(..., errors='coerce') of a cell of the Date column: a
\* timestamp stays what it is, anything else becomes NaT
to_datetime_coerce(t) == IF t \in Range(DateOrder) THEN t ELSE NaT

\* Series.nlargest(5): the five largest sums, largest first, equal sums in
\* the order of the groups
nlargest(s) ==
  LET Before(a, b) == a.val > b.val
                      \/ (a.val = b.val /\ \E i, j \in DOMAIN s :
                                             i < j /\ s[i] = a /\ s[j] = b)
      sorted == CHOOSE t \in [DOMAIN s -> Range(s)] :
                  /\ Range(t) = Range(s)
                  /\ \A i, j \in DOMAIN t : i < j => Before(t[i], t[j])
  IN IF s = <<>> THEN <<>>
     ELSE SubSeq(sorted, 1, IF Len(s) < 5 THEN Len(s) ELSE 5)

\* condense_dataframe_for_ai lines 44-75 on a frame whose Date column has
\* been converted: what the summary text is made of, or the ValueError of
\* strftime on NaT
condense_dataframe_for_ai(d) ==
  LET dates == {d[i].Date : i \in DOMAIN d} \ {NaT}
      total_planned == SumCol(d, "Planned_Production_Units")
  IN IF dates = {} THEN [raised |-> "ValueError"]
     ELSE [total_production |-> SumCol(d, "Actual_Production_Units"),
           total_downtime |-> SumCol(d, "Downtime_Minutes"),
           total_waste |-> SumCol(d, "Waste_Weight_kg"),
           efficiency |->
             IF total_planned > 0
             THEN <<FormatPct(TrueDiv(SumCol(d, "Actual_Production_Units"),
                                      total_planned))>>
             ELSE <<>>,
           prod_by_product |->
             nlargest(GroupSeries(d, "Product_Name",
                                  "Actual_Production_Units")),
           downtime_by_reason |->
             nlargest(GroupSeries(d, "Downtime_Reason", "Downtime_Minutes")),
           waste_by_shift |-> GroupSeries(d, "Shift", "Waste_Weight_kg"),
           start_date |-> Day(MinOf(dates)),
           end_date |-> Day(MaxOf(dates)),
           records |-> Len(d)]

\* condense_dataframe_for_ai(st.session_state['df']): line 42 assigns the
\* converted Date column to the frame it is given, the session's own
CondenseStep ==
  /\ df' = [i \in DOMAIN df |-> [df[i] EXCEPT !.Date = to_datetime_coerce(@)]]
  /\ data_summary_context' = condense_dataframe_for_ai(df')

\* the summary is asked for while a report is prepared
CondenseDataframeForAI ==
  /\ pc # "start"
  /\ df # <<>>
  /\ CondenseStep
  /\ UNCHANGED <<csv, dflt, date_range, selected, date_filtered, view,
                 kpis, insights, metrics, daily, product, shift, operator,
                 downtime, recommendations, report, pc,
                 logged_in, user_info, page, df_index, df_range, audit_file,
                 df_log, clock, messages, sessions, cache, log_calls>>

\* the greeting the history starts with (line 102)
Greeting == [role |-> "model", content |-> "Hello!"]

\* the kinds of prompt lines 126, 150 and 168 tell apart
PromptKinds == {"capabilities", "data", "casual"}

\* the prompts st.session_state.messages holds
Prompts(history) ==
  Cardinality({k \in DOMAIN history : history[k].role = "user"})

\* chatbot_page with a prompt entered by the user logged in: the prompt is
\* appended, a data question has the dataset condensed, and the model's
\* answer or the error message of the call is appended
ChatPrompt ==
  /\ page = "AI Chatbot (Beta)"
  /\ check_role(logged_in, user_info, chatbot_page_role)
  /\ df # <<>>
  /\ LET history == IF messages = None THEN <<Greeting>> ELSE messages
     IN /\ Prompts(history) < MaxPrompts
        /\ \E kind \in PromptKinds, answer \in {"response", "error"} :
             LET asked == Append(history,
                                 [role |-> "user", content |-> kind])
             IN /\ IF kind = "data"
                   THEN CondenseStep
                   ELSE UNCHANGED <<df, data_summary_context>>
                /\ messages' =
                     IF kind = "data"
                        /\ "raised" \in DOMAIN data_summary_context'
                     THEN asked
                     ELSE Append(asked, [role |-> "model",
                                         content |-> answer])
  /\ UNCHANGED <<csv, dflt, date_range, selected, date_filtered, view,
                 kpis, insights, metrics, daily, product, shift, operator,
                 downtime, recommendations, report, pc,
                 logged_in, user_info, page, df_index, df_range, audit_file,
                 df_log, clock, sessions, cache, log_calls>>

\* chatbot_page rendered with no prompt entered: lines 101-102 start the
\* history when the session has none
ChatbotPage ==
  /\ page = "AI Chatbot (Beta)"
  /\ check_role(logged_in, user_info, chatbot_page_role)
  /\ df # <<>>
  /\ messages = None
  /\ messages' = <<Greeting>>
  /\ UNCHANGED <<csv, df, dflt, date_range, selected, date_filtered, view,
                 kpis, insights, metrics, daily, product, shift, operator,
                 downtime, recommendations, report, pc,
                 logged_in, user_info, page, df_index, df_range, audit_file,
                 df_log, clock, data_summary_context, sessions, cache,
                 log_calls>>

(***************************************************************************)
(* Two browser sessions of the same server                                 *)
(***************************************************************************)
\* the rows of a file the two sessions load
MaxShared == 1

\* the audit records the two sessions write between them
MaxSharedLog == 2

\* lines 19-26 of log_edit: the one-row frame of the call
new_log_of(user, now, row_id, column, old_value, new_value) ==
  [user |-> user,
   timestamp |-> ToString(now),
   row_id |-> ToCsv("Row_ID", row_id),
   column_name |-> column,
   old_value |-> ToCsv(column, old_value),
   new_value |-> ToCsv(column, new_value)]

\* line 33: new_log.to_csv(AUDIT_LOG_FILE, mode='a', header=write_header):
\* the header line, if asked for, and the record go to the end of the file
\* in one write
to_csv_append(file, new_log, write_header) ==
  file \o (IF write_header THEN <<AuditHeader>> ELSE <<>>) \o <<new_log>>

\* the log_edit calls under way
Pending == {s \in Sessions : log_calls[s].at = "checked"}

\* log_edit in the script thread of session s, up to line 30: the call
\* returns at line 17 when the string forms are equal; otherwise the record
\* is built and the file is looked at
LogEditBegin(s) ==
  /\ log_calls[s].at = "idle"
  /\ (IF audit_file = <<>> THEN 0 ELSE Len(audit_file) - 1)
       + Cardinality(Pending) < MaxSharedLog
  /\ \E row_id \in 0..(MaxRows - 1),
        old_value \in TypedReasons \cup {"A"},
        new_value \in TypedReasons \cup {"A"} :
       IF Str("Downtime_Reason", old_value)
            = Str("Downtime_Reason", new_value)
       THEN UNCHANGED log_calls
       ELSE log_calls' =
              [log_calls EXCEPT ![s] =
                 [at |-> "checked",
                  write_header |-> audit_file = <<>>,
                  new_log |-> new_log_of(SessionUser, clock, row_id,
                                         "Downtime_Reason", old_value,
                                         new_value)]]
  /\ UNCHANGED <<csv, df, dflt, date_range, selected, date_filtered, view,
                 kpis, insights, metrics, daily, product, shift, operator,
                 downtime, recommendations, report, pc,
                 logged_in, user_info, page, df_index, df_range, audit_file,
                 df_log, clock, messages, data_summary_context, sessions,
                 cache>>

\* log_edit in the script thread of session s, line 33
LogEditWrite(s) ==
  /\ log_calls[s].at = "checked"
  /\ audit_file' = to_csv_append(audit_file, log_calls[s].new_log,
                                 log_calls[s].write_header)
  /\ log_calls' = [log_calls EXCEPT ![s] = InitLogCalls[s]]
  /\ UNCHANGED <<csv, df, dflt, date_range, selected, date_filtered, view,
                 kpis, insights, metrics, daily, product, shift, operator,
                 downtime, recommendations, report, pc,
                 logged_in, user_info, page, df_index, df_range,
                 df_log, clock, messages, data_summary_context, sessions,
                 cache>>

\* files whose rows differ in downtime reason (possibly missing) and
\* produced units
SharedRows ==
  {MkRow(0, "S1", "P1", "O1", r, a, 1, 1, 0, 1, 1) :
     r \in {"A", Null}, a \in 1..MaxUnits}

\* the files the sessions load
SharedFiles == [1..MaxShared -> SharedRows]

\* load_data under @st.cache_data: the first call for a file runs the
\* function and stores what it returns, every call gets its own copy of
\* the stored value
cached_load_data(c, file) ==
  IF file \in DOMAIN c THEN c[file] ELSE load_data(file)

\* a mutant of session_state_set: one state shared by all the sessions
session_state_set_global(ss, s, fields) == [t \in DOMAIN ss |-> fields]

\* st.session_state of session s after its keys are assigned
session_state_set(ss, s, fields) == [ss EXCEPT ![s] = fields]

\* data_loader_page in session s: st.session_state['df'] = load_data(file)
SessionLoad(s) ==
  /\ \E file \in SharedFiles :
       LET loaded == cached_load_data(cache, file)
       IN /\ cache' = (file :> loaded) @@ cache
          /\ sessions' =
               session_state_set(sessions, s,
                 [df |-> loaded, df_index |-> RangeIndex(loaded),
                  df_range |-> TRUE, kpis |-> None, product |-> <<>>,
                  downtime |-> <<>>])
  /\ UNCHANGED <<csv, df, dflt, date_range, selected, date_filtered, view,
                 kpis, insights, metrics, daily, product, shift, operator,
                 downtime, recommendations, report, pc,
                 logged_in, user_info, page, df_index, df_range, audit_file,
                 df_log, clock, messages, data_summary_context, log_calls>>

\* editor_page in session s with 'Apply Changes and Save' pressed: the
\* records go to the audit log of the server, the edited table to the
\* session
SessionApply(s) ==
  /\ sessions[s].df # <<>>
  /\ \E edited \in EditedTables(sessions[s].df, sessions[s].df_index,
                                sessions[s].df_range) :
       LET res == LogRows(audit_file, SessionUser, clock, sessions[s].df,
                          sessions[s].df_index, edited, 1)
       IN /\ Len(res.file) <= MaxSharedLog + 1
          /\ audit_file' = res.file
          /\ IF ~res.raised /\ res.file # audit_file
             THEN \E is_range \in (IF edited.deleted THEN BOOLEAN
                                   ELSE {sessions[s].df_range}) :
                    sessions' =
                      session_state_set(sessions, s,
                        [df |-> edited.rows, df_index |-> edited.index,
                         df_range |-> is_range, kpis |-> None,
                         product |-> <<>>, downtime |-> <<>>])
             ELSE UNCHANGED sessions
  /\ UNCHANGED <<csv, df, dflt, date_range, selected, date_filtered, view,
                 kpis, insights, metrics, daily, product, shift, operator,
                 downtime, recommendations, report, pc,
                 logged_in, user_info, page, df_index, df_range,
                 df_log, clock, messages, data_summary_context, cache,
                 log_calls>>

\* the view of a dataset under the widgets as they first come up
DefaultView(d) ==
  LET dr == <<default_start(d), default_end(d)>>
  IN CategoryFilter(DateFilter(d, dr), Options(DateFilter(d, dr)))

\* reports_page in session s with a report generated under the default
\* filters: the KPIs and the aggregations of the session's own dataset
SessionRender(s) ==
  /\ sessions[s].df # <<>>
  /\ LET d == [i \in DOMAIN sessions[s].df |->
                 [sessions[s].df[i] EXCEPT !.Date = ToDatetime(@)]]
     IN \E sorted \in sort_values(downtime_by_reason(DefaultView(d))) :
          sessions' =
            session_state_set(sessions, s,
              [sessions[s] EXCEPT !.kpis = calculate_kpis(DefaultView(d)),
                                  !.product = build_product(DefaultView(d)),
                                  !.downtime = sorted])
  /\ UNCHANGED <<csv, df, dflt, date_range, selected, date_filtered, view,
                 kpis, insights, metrics, daily, product, shift, operator,
                 downtime, recommendations, report, pc,
                 logged_in, user_info, page, df_index, df_range, audit_file,
                 df_log, clock, messages, data_summary_context, cache,
                 log_calls>>

\* a report under the default date range
Next ==
  \/ LoadData
  \/ CreateFiltersShifts
  \/ CalculateKpis
  \/ DeriveReportMetrics
  \/ BuildAggregations
  \/ Rerun

\* the filter under every widget input
NextFilter ==
  \/ LoadData
  \/ CreateFilters
  \/ Rerun

\* the insight text under date ranges
NextTrend ==
  \/ LoadData
  \/ CreateFiltersDates
  \/ CalculateKpis
  \/ Rerun

\* a report, with the data summary of the chatbot asked for at any point
NextCore ==
  \/ LoadData
  \/ CreateFiltersShifts
  \/ CalculateKpis
  \/ DeriveReportMetrics
  \/ BuildAggregations
  \/ Rerun
  \/ CondenseDataframeForAI

\* a report from the filter to the generated file
NextReport ==
  \/ LoadData
  \/ CreateFiltersShifts
  \/ CalculateKpis
  \/ DeriveReportMetrics
  \/ BuildAggregations
  \/ GenerateReport
  \/ Rerun

\* two sessions that load, edit and report in any order
NextTwo ==
  \E s \in Sessions :
    \/ SessionLoad(s)
    \/ SessionApply(s)
    \/ SessionRender(s)

InitAgg == InitWith(SeqsUpTo(AggRows, MaxRows))
InitOptions == InitWith(SeqsUpTo(OptionRows, MaxRows))
InitKpi == InitWith(SeqsUpTo(KpiRows, MaxRows))
InitFilter == InitWith(SeqsUpTo(FilterRows, MaxRows))

\* a session: login, navigation, loading, logout
NextSession ==
  \/ Authenticate
  \/ Logout
  \/ Navigate
  \/ LoadDataset
  \/ Tick

\* log_edit calls of two sessions, their steps in any order
NextLog ==
  \/ \E s \in Sessions : LogEditBegin(s) \/ LogEditWrite(s)
  \/ Tick

\* sessions that log in and out, load datasets and chat
NextChat ==
  \/ Authenticate
  \/ Logout
  \/ NavigateChat
  \/ LoadDataset
  \/ ChatbotPage
  \/ ChatPrompt

\* a session that edits its dataset and reads the audit log
NextEditor ==
  \/ Authenticate
  \/ NavigateData
  \/ LoadDataset
  \/ ApplyChanges
  \/ AuditLogPage
  \/ Tick

\* no file is chosen until the loader page
InitSession == InitWith({<<>>})

InitTrend == InitWith(SeqsUpTo(TrendRows, MaxRows))
InitWeek == InitWith(SeqsUpTo(WeekRows, MaxRows))
InitRec == InitWith(SeqsUpTo(RecRows, MaxRows))

\* reports over files that vary the numeric columns
Spec == InitKpi /\ [][Next]_vars
\* reports over files that vary products and downtime reasons
SpecAgg == InitAgg /\ [][Next]_vars
\* the filter over files that vary dates and categories
SpecFilter == InitFilter /\ [][NextFilter]_vars
\* the insight text over files that vary dates and produced units
SpecTrend == InitTrend /\ [][NextTrend]_vars
\* reports over files that vary around the thresholds of the recommendations
SpecRec == InitRec /\ [][Next]_vars
\* every core operation over files that vary dates, times of day and shifts
SpecCore == InitFilter /\ [][NextCore]_vars
\* generated reports over files that vary products and downtime reasons
SpecReport == InitAgg /\ [][NextReport]_vars
\* the filter under every widget input, on files with missing reasons
SpecOptions == InitOptions /\ [][NextFilter]_vars
\* one browser session used by one user after another, with the chatbot
SpecChat == InitSession /\ [][NextChat]_vars
\* the insight text under date ranges, on files with times of day
SpecWeek == InitWeek /\ [][NextTrend]_vars
\* two sessions that write to the audit log
SpecLog == InitSession /\ [][NextLog]_vars
\* two sessions on one server
SpecTwo == InitSession /\ [][NextTwo]_vars
\* sessions that log in and out and load datasets
SpecSession == InitSession /\ [][NextSession]_vars
\* a session with the data editor and the audit log
SpecEditor == InitSession /\ [][NextEditor]_vars

(***************************************************************************)
(* Properties                                                              *)
(***************************************************************************)
RECURSIVE IsSubSeq(_, _)
\* a is b with some rows left out, the others in their order
IsSubSeq(a, b) ==
  IF a = <<>> THEN TRUE
  ELSE IF b = <<>> THEN FALSE
  ELSE IF Head(a) = Head(b) THEN IsSubSeq(Tail(a), Tail(b))
       ELSE IsSubSeq(a, Tail(b))

\* x is the value a guarded ratio must have over the denominator den
Guarded(x, den) == IsFinite(x) /\ (den = 0 => x = Zero)

GuardedPct(x, den) == x.kind = "num" /\ (den = 0 => x = FormatPct(Zero))

ViewSum(col) == SumCol(view, col)

\* C1: every ratio of calculate_kpis, _derive_report_metrics and
\* _build_aggregations is finite, and is exactly 0 when its denominator is 0,
\* for every view, the empty one included.
C1_RatiosGuarded ==
  /\ pc \in {"kpis", "metrics", "aggs"} =>
       /\ GuardedPct(kpis["Overall Efficiency"],
                     ViewSum("Planned_Production_Units"))
       /\ GuardedPct(kpis["Raw Material Yield"],
                     ViewSum("Raw_Material_Used_kg"))
       /\ GuardedPct(kpis["Utilization Rate"],
                     ViewSum("Total_Time_Run_Minutes")
                       + ViewSum("Downtime_Minutes"))
  /\ pc \in {"metrics", "aggs"} =>
       /\ Guarded(metrics.efficiency, ViewSum("Planned_Production_Units"))
       /\ Guarded(metrics.yield_rate, ViewSum("Raw_Material_Used_kg"))
       /\ Guarded(metrics.utilization,
                  ViewSum("Total_Time_Run_Minutes")
                    + ViewSum("Downtime_Minutes"))
  /\ pc = "aggs" =>
       /\ \A i \in DOMAIN daily :
            /\ Guarded(daily[i].Efficiency, daily[i].Planned_Production_Units)
            /\ Guarded(daily[i].Yield, daily[i].Raw_Material_Used_kg)
       /\ \A i \in DOMAIN product :
            /\ Guarded(product[i].Efficiency,
                       product[i].Planned_Production_Units)
            /\ Guarded(product[i].Waste_Rate, product[i].Raw_Material_Used_kg)
       /\ \A i \in DOMAIN shift :
            /\ Guarded(shift[i].Efficiency, shift[i].Planned_Production_Units)
            /\ Guarded(shift[i].Waste_Rate, shift[i].Raw_Material_Used_kg)
            /\ Guarded(shift[i].Downtime_per_Unit,
                       shift[i].Actual_Production_Units)
       /\ \A i \in DOMAIN operator :
            Guarded(operator[i].Efficiency,
                    operator[i].Planned_Production_Units)

\* a report on rows whose planned, raw-material, run-time and downtime sums
\* are all 0 while units were produced
C1_Witness ==
  /\ pc = "aggs"
  /\ view # <<>>
  /\ ViewSum("Planned_Production_Units") = 0
  /\ ViewSum("Raw_Material_Used_kg") = 0
  /\ ViewSum("Total_Time_Run_Minutes") + ViewSum("Downtime_Minutes") = 0
  /\ ViewSum("Actual_Production_Units") > 0
  /\ ViewSum("Waste_Weight_kg") > 0

\* C2: when the product groups' actual units sum to 0, the Share of every
\* product group is 0.
C2_ShareZeroWithoutProduction ==
  (pc = "aggs" /\ SumCol(product, "Actual_Production_Units") = 0) =>
    \A i \in DOMAIN product : product[i].Share = Zero

FirstAppearance(r) ==
  CHOOSE i \in DOMAIN view :
    /\ view[i].Downtime_Reason = r
    /\ \A j \in DOMAIN view : view[j].Downtime_Reason = r => i <= j

Descending ==
  \A i, j \in DOMAIN downtime :
    i < j => downtime[i].Downtime_Minutes >= downtime[j].Downtime_Minutes

\* C5 as claimed: reasons in descending order of summed minutes, reasons with
\* equal totals in the order of their first appearance in the view.
C5_TiesByFirstAppearance ==
  pc = "aggs" =>
    /\ Descending
    /\ \A i, j \in DOMAIN downtime :
         (i < j /\ downtime[i].Downtime_Minutes = downtime[j].Downtime_Minutes)
           => FirstAppearance(downtime[i].Downtime_Reason)
                < FirstAppearance(downtime[j].Downtime_Reason)

\* C5 as amended: reasons in descending order of summed minutes, each listed
\* reason once with the sum of its rows; nothing is said of equal totals.
C5_DescendingByMinutes ==
  pc = "aggs" =>
    /\ Descending
    /\ \A i, j \in DOMAIN downtime :
         downtime[i].Downtime_Reason = downtime[j].Downtime_Reason => i = j
    /\ \A i \in DOMAIN downtime :
         downtime[i].Downtime_Minutes =
           SumCol(RowsWith(view, "Downtime_Reason",
                           downtime[i].Downtime_Reason), "Downtime_Minutes")

\* two reasons with equal totals, listed against their order of appearance
C5_Witness ==
  /\ pc = "aggs"
  /\ Len(downtime) = 2
  /\ downtime[1].Downtime_Minutes = downtime[2].Downtime_Minutes
  /\ downtime[1].Downtime_Minutes > 0
  /\ FirstAppearance(downtime[2].Downtime_Reason)
       < FirstAppearance(downtime[1].Downtime_Reason)

\* C6: rows without a downtime reason are kept as a group of their own: the
\* groups' minutes sum to the view's minutes, and the rows without a reason
\* have a group.
C6_NullReasonKept ==
  pc = "aggs" =>
    /\ SumCol(downtime, "Downtime_Minutes") = ViewSum("Downtime_Minutes")
    /\ (\E i \in DOMAIN view : view[i].Downtime_Reason = Null)
         => Len(downtime)
              = Cardinality({view[i].Downtime_Reason : i \in DOMAIN view})

InRange(t, dr) == dr[1] <= Day(t) /\ Day(t) <= dr[2]

\* C7: under a selected range [start, end] the date filter keeps exactly the
\* rows dated on a day d with start <= d <= end, and so does create_filters
\* when every category is selected.
C7_DateRangeInclusive ==
  (pc = "filtered" /\ Len(date_range) = 2) =>
    \A i \in DOMAIN df :
      /\ df[i] \in Range(date_filtered) <=> InRange(df[i].Date, date_range)
      /\ selected = Options(date_filtered) =>
           (df[i] \in Range(view) <=> InRange(df[i].Date, date_range))

\* a row late on the end date is kept, a row on the next day is not
C7_Witness ==
  /\ pc = "filtered"
  /\ Len(date_range) = 2
  /\ \E i \in DOMAIN view :
       Day(view[i].Date) = date_range[2] /\ view[i].Date % TicksPerDay > 0
  /\ \E i \in DOMAIN df :
       Day(df[i].Date) = date_range[2] + 1 /\ df[i] \notin Range(view)

DatasetDays == {Day(df[i].Date) : i \in DOMAIN df}

\* C8: the default range ends at the last day of the dataset and starts 6
\* days earlier, or at the first day when that is later; it never starts
\* before the first day and never spans more than 7 days.
C8_DefaultRange ==
  pc = "filtered" =>
    LET first == MinOf(DatasetDays)
        last == MaxOf(DatasetDays)
    IN /\ dflt[2] = last
       /\ dflt[1] = (IF last - 6 < first THEN first ELSE last - 6)
       /\ dflt[1] >= first
       /\ dflt[2] - dflt[1] + 1 <= 7

\* a dataset longer than 7 days: the default range starts after its first day
C8_Witness ==
  /\ pc = "filtered"
  /\ dflt[1] > MinOf(DatasetDays)
  /\ dflt[2] - dflt[1] + 1 = 7

C10_ReportMatchesCards ==
  pc \in {"metrics", "aggs"} =>
    /\ FormatPct(metrics.efficiency) = kpis["Overall Efficiency"]
    /\ FormatPct(metrics.yield_rate) = kpis["Raw Material Yield"]
    /\ FormatPct(metrics.utilization) = kpis["Utilization Rate"]

\* a view with waste and downtime: none of the three rates is 0% or 100%
C10_Witness ==
  /\ pc = "metrics"
  /\ \A k \in {"Overall Efficiency", "Raw Material Yield", "Utilization Rate"} :
       kpis[k].val \notin {0, 10000}

\* the render has computed the insight text of the view
InsightsDone == pc \in {"kpis", "metrics", "aggs"}

\* C11: on a view with no rows generate_insights returns the sentinel text
\* 'No data available to generate insights.' and nothing else: no trend, no
\* best-product and no downtime statement is computed.
C11_SentinelOnEmptyView ==
  (InsightsDone /\ view = <<>>) => insights = <<Stmt(Sentinel, "", 0)>>

\* a dataset is loaded, the filter leaves no row, the insight text is made
C11_Witness ==
  /\ pc = "kpis"
  /\ df # <<>>
  /\ view = <<>>
  /\ insights = <<Stmt(Sentinel, "", 0)>>

TrendTexts == {TrendChange, TrendZero, TrendShort}

\* the calendar weeks of the rows of the view, and the units made in one
ViewWeeks == {WeekOf(view[i].Date) : i \in DOMAIN view}
WeekUnits(w) ==
  SumCol(SelectRows(view, {r \in Range(view) : WeekOf(r.Date) = w}),
         "Actual_Production_Units")

\* the statement s is the trend the view calls for
IsTrendOfView(s) ==
  LET buckets == MaxOf(ViewWeeks) - MinOf(ViewWeeks) + 1
      last == WeekUnits(MaxOf(ViewWeeks))
      prev == WeekUnits(MaxOf(ViewWeeks) - 1)
  IN IF buckets >= 2 /\ prev # 0
     THEN /\ s.stmt = TrendChange
          /\ s.name = (IF (last - prev) * prev >= 0
                       THEN "increased" ELSE "decreased")
          \* s.num tenths of a percent is |(last - prev) / prev * 100| rounded
          /\ Abs(2 * 1000 * Abs(last - prev) - 2 * s.num * Abs(prev))
               <= Abs(prev)
     ELSE IF buckets >= 2
     THEN s = Stmt(TrendZero, "", 0)
     ELSE s = Stmt(TrendShort, "", 0)

\* C12: on a view with rows the insight text starts with exactly one trend
\* statement: with two or more weekly buckets and a previous bucket that is
\* not zero, the percentage change (last - previous) / previous * 100,
\* 'increased' when it is >= 0 and 'decreased' otherwise; with two or more
\* buckets and a previous bucket of zero, 'comparison not possible'; with
\* fewer than two buckets, the insufficient-data statement.
C12_OneTrendStatement ==
  (InsightsDone /\ view # <<>>) =>
    /\ insights # <<>>
    /\ IsTrendOfView(insights[1])
    /\ Cardinality({i \in DOMAIN insights :
                      insights[i].stmt \in TrendTexts}) = 1

\* a view over two weeks whose production went down
C12_Witness ==
  /\ pc = "kpis"
  /\ view # <<>>
  /\ Cardinality(ViewWeeks) = 2
  /\ insights[1].stmt = TrendChange
  /\ insights[1].name = "decreased"

\* the units made of product p in the view
ProductUnits(p) ==
  SumCol(RowsWith(view, "Product_Name", p), "Actual_Production_Units")

ViewProducts == {view[i].Product_Name : i \in DOMAIN view}

\* the products of the view that no other product outproduces
TopProducts ==
  {p \in ViewProducts : \A q \in ViewProducts : ProductUnits(p) >= ProductUnits(q)}

\* the position in the view of the first row of product p
FirstRowOf(p) == MinOf({i \in DOMAIN view : view[i].Product_Name = p})

\* the product the insight text names as the highest produced
NamedBest ==
  {insights[i].name : i \in {j \in DOMAIN insights :
                               insights[j].stmt = HighestVolume}}

\* C13 as stated: the product named is the one with the largest summed
\* Actual, and of several with the same largest sum the one whose first row
\* is earliest in the view.
C13_TieByFirstRow ==
  (InsightsDone /\ view # <<>>) =>
    NamedBest = {p \in TopProducts :
                   \A q \in TopProducts : FirstRowOf(p) <= FirstRowOf(q)}

\* C13 amended: exactly one product is named, and no product of the view has
\* a larger summed Actual than it; the order of the rows does not decide
\* between products with the same sum.
C13_NamedIsLargest ==
  (InsightsDone /\ view # <<>>) =>
    /\ Cardinality(NamedBest) = 1
    /\ NamedBest \subseteq TopProducts

\* two products with the same sum, one of them named
C13_Witness ==
  /\ pc = "kpis"
  /\ Cardinality(TopProducts) = 2
  /\ Cardinality(NamedBest) = 1

RecTexts == [i \in DOMAIN recommendations |-> recommendations[i].text]

\* the rules whose condition holds of the report's metrics and shift table
FiringRules ==
  LET dpu == [i \in DOMAIN shift |-> shift[i].Downtime_per_Unit]
      total == FSum(dpu)
  IN {ReviewPlanning :
        x \in {m \in {metrics.efficiency} : 20 * m.n < 19 * m.d}}
     \cup {InvestigateLosses :
             x \in {m \in {metrics.yield_rate} : 100 * m.n < 97 * m.d}}
     \cup {FocusDowntime : x \in {t \in {metrics.total_downtime} : t > 0}}
     \cup {StandardizeShifts :
             x \in {i \in DOMAIN dpu :
                      \* dpu[i] > 1.2 * total / Len(dpu)
                      5 * Len(dpu) * dpu[i].n * total.d
                        > 6 * total.n * dpu[i].d}}

\* C14: the recommendations are exactly the messages of the rules that fire
\* (efficiency < 0.95, yield_rate < 0.97, total_downtime > 0, largest shift
\* downtime-per-unit > 1.2 x the mean), each once, in that order; the
\* fallback message is there if and only if no rule fires; the list is never
\* empty; a metric exactly at its threshold does not fire its rule.
C14_RecommendationRules ==
  pc = "aggs" =>
    /\ recommendations # <<>>
    /\ RecTexts =
         (IF FiringRules = {} THEN <<MaintainPractices>>
          ELSE SelectRows(<<ReviewPlanning, InvestigateLosses, FocusDowntime,
                            StandardizeShifts>>, FiringRules))

\* efficiency and yield both exactly at their thresholds, no downtime: the
\* fallback alone
C14_Witness ==
  /\ pc = "aggs"
  /\ view # <<>>
  /\ metrics.efficiency = EfficiencyTarget
  /\ metrics.yield_rate = YieldTarget
  /\ RecTexts = <<MaintainPractices>>

\* the roles in ascending order of what they may do
RoleRank == ("Viewer" :> 1) @@ ("Analyst" :> 2) @@ ("Admin" :> 3)

\* C15: the capability sets are nested, Viewer within Analyst within Admin:
\* whatever required role check_role accepts for the user logged in, it
\* accepts for every user of a higher role; and with nobody logged in
\* check_role fails for every required role.
C15_RolesNested ==
  \A r \in RequiredRoles :
    /\ ~logged_in =>
         /\ ~check_role(logged_in, user_info, r)
         /\ \A u \in Users : ~check_role(logged_in, u, r)
    /\ (logged_in /\ check_role(logged_in, user_info, r)) =>
         \A u \in Users :
           RoleRank[u.role] >= RoleRank[user_info.role] =>
             check_role(logged_in, u, r)

\* a Viewer is logged in and check_role('Viewer') has let them on the
\* dashboard
C15_Witness ==
  /\ logged_in
  /\ user_info.role = "Viewer"
  /\ page = "Dashboard"
  /\ check_role(logged_in, user_info, "Viewer")

\* the page of label is offered to the session (its sidebar button is shown)
\* and its page function goes past its role check
Available(label) ==
  /\ check_role(logged_in, user_info, nav_buttons[label])
  /\ page_admits(logged_in, user_info, label)

\* C16 as stated: the dashboard is available to every logged-in user;
\* editing, reporting, exporting and the AI chat are each available to an
\* Analyst or Admin and refused to a Viewer.
C16_AnalystCapabilities ==
  logged_in =>
    /\ Available("Dashboard")
    /\ \A label \in {"Data Editor", "Reports", "Export Database",
                     "AI Chatbot (Beta)"} :
         Available(label) <=> user_info.role \in {"Analyst", "Admin"}

\* C16 amended: the dashboard is available to every logged-in user;
\* reporting, exporting and the AI chat are each available to an Analyst or
\* Admin and refused to a Viewer; editing is available to an Admin only and
\* refused to an Analyst and to a Viewer.
C16_EditingAdminOnly ==
  logged_in =>
    /\ Available("Dashboard")
    /\ \A label \in {"Reports", "Export Database", "AI Chatbot (Beta)"} :
         Available(label) <=> user_info.role \in {"Analyst", "Admin"}
    /\ Available("Data Editor") <=> user_info.role = "Admin"

\* an Analyst on the Reports page, with no way to the editor
C16_Witness ==
  /\ logged_in
  /\ user_info.role = "Analyst"
  /\ page = "Reports"
  /\ ~Available("Data Editor")

\* C17: a load that fails (a file that cannot be read, a CSV without its
\* Date column) leaves the dataset the session held before unchanged.
C17_FailedLoadKeepsDataset ==
  [][(\E file \in BadFiles : LoadDatasetOf(file)) => df' = df]_vars

\* C18: every row of the session dataset has a Row_ID, no two rows share one,
\* and a row keeps the Row_ID it got at load, which is its position in the
\* file (the label the index keeps for it), whatever cell edits, row
\* additions and row deletions have been applied.
C18_RowIdsStable ==
  /\ Len(df_index) = Len(df)
  /\ \A i \in DOMAIN df :
       /\ df[i].Row_ID # NaNCell
       /\ df[i].Row_ID = df_index[i]
  /\ \A i, j \in DOMAIN df : df[i].Row_ID = df[j].Row_ID => i = j

\* the lines of the log without its header
Records(file) == IF file = <<>> THEN <<>> ELSE Tail(file)

\* the records the step has appended
Appended == SubSeq(Records(audit_file'), Len(Records(audit_file)) + 1,
                   Len(Records(audit_file')))

\* the cells of the edited table that have an old value, in the columns
\* other than Row_ID
CellsOf(edited) ==
  {<<i, c>> : i \in {k \in DOMAIN edited.rows :
                       \E n \in DOMAIN df_index :
                         df_index[n] = edited.index[k]},
              c \in DOMAIN AddedRow \ {"Row_ID"}}

OldValue(edited, cell) == Loc(df, df_index, edited.index[cell[1]])[cell[2]]
NewValue(edited, cell) == edited.rows[cell[1]][cell[2]]

\* the cells whose old and new value differ in their string forms
ChangedCells(edited) ==
  {cell \in CellsOf(edited) :
     Str(cell[2], OldValue(edited, cell))
       # Str(cell[2], NewValue(edited, cell))}

\* the audit record of a cell
RecordOf(edited, cell) ==
  [user |-> user_info.username,
   timestamp |-> ToString(clock),
   row_id |-> ToCsv("Row_ID", edited.rows[cell[1]].Row_ID),
   column_name |-> cell[2],
   old_value |-> ToCsv(cell[2], OldValue(edited, cell)),
   new_value |-> ToCsv(cell[2], NewValue(edited, cell))]

C20_AppendOnly ==
  [][/\ Len(audit_file') >= Len(audit_file)
     /\ SubSeq(audit_file', 1, Len(audit_file)) = audit_file]_vars

\* records of two operations in the file, and the log read and shown
C20_Witness ==
  /\ page = "Audit Logs"
  /\ Len(Records(audit_file)) >= 2
  /\ Len(df_log) = Len(Records(audit_file))
  /\ \E k \in DOMAIN df_log : df_log[k] # Records(audit_file)[k]

\* C21: no core operation changes the session's dataset: after
\* create_filters, calculate_kpis, generate_insights, _derive_report_metrics,
\* _build_aggregations or condense_dataframe_for_ai has run on it, the
\* dataset has the same rows, the same columns and the same cell values.
C21_CoreKeepsDataset ==
  [][(\/ CreateFiltersShifts
      \/ Rerun
      \/ CalculateKpis
      \/ DeriveReportMetrics
      \/ BuildAggregations
      \/ CondenseDataframeForAI) => df' = df]_vars

\* a dataset with a row dated in the course of a day has been filtered,
\* reported on and condensed, and is still what load_data returned
C21_Witness ==
  /\ pc = "aggs"
  /\ data_summary_context # None
  /\ \E i \in DOMAIN df : df[i].Date % TicksPerDay # 0
  /\ df = load_data(csv)

\* C22: for a view with zero rows, calculate_kpis returns the six KPIs all
\* with zero values, _build_aggregations returns five empty tables and the
\* report generator completes without an error.
C22_EmptyViewCompletes ==
  (view = <<>> /\ pc \in {"kpis", "metrics", "aggs", "report"}) =>
    /\ kpis["Total Production (Units)"] = 0
    /\ kpis["Overall Efficiency"] = FormatPct(Zero)
    /\ kpis["Raw Material Yield"] = FormatPct(Zero)
    /\ kpis["Total Waste (kg)"] = 0
    /\ kpis["Total Downtime (min)"] = 0
    /\ kpis["Utilization Rate"] = FormatPct(Zero)
    /\ pc \in {"aggs", "report"} =>
         /\ daily = <<>>
         /\ product = <<>>
         /\ shift = <<>>
         /\ operator = <<>>
         /\ downtime = <<>>
    /\ pc = "report" => "raised" \notin DOMAIN report

\* C23: under any interleaving of loads, applied edits and renders in two
\* sessions, a step of one session leaves the other session's dataset and
\* the outputs computed for it as they were, and what a session renders
\* is what its own dataset gives, also when both sessions loaded the same
\* file through the cached load_data.
C23_SessionsIsolated ==
  [][\A s \in Sessions :
       \/ /\ \A t \in Sessions \ {s} : sessions'[t] = sessions[t]
          /\ \A t \in Sessions :
               (sessions'[t] # sessions[t] /\ sessions'[t].kpis # None) =>
                 LET d == [i \in DOMAIN sessions'[t].df |->
                             [sessions'[t].df[i] EXCEPT
                                !.Date = ToDatetime(@)]]
                 IN /\ sessions'[t].kpis = calculate_kpis(DefaultView(d))
                    /\ sessions'[t].product = build_product(DefaultView(d))
                    /\ sessions'[t].downtime \in
                         sort_values(downtime_by_reason(DefaultView(d)))
       \/ ~(SessionLoad(s) \/ SessionApply(s) \/ SessionRender(s))]_vars

\* both sessions loaded the same file through the cache, one of them
\* applied an edit, and both have rendered: their datasets now differ
C23_Witness ==
  /\ \E file \in DOMAIN cache :
       /\ sessions[1].df # cache[file]
       /\ sessions[2].df = cache[file]
  /\ Len(sessions[1].df) = Len(sessions[2].df)
  /\ Len(audit_file) > 1
  /\ sessions[1].kpis # None
  /\ sessions[2].kpis # None
  /\ sessions[1].downtime # sessions[2].downtime

\* the values of column c in the rows of the dataset dated inside a
\* selected range, a missing one shown as 'nan'
ValuesInRange(c) ==
  {IF df[i][c] = Null THEN "nan" ELSE df[i][c] :
     i \in {j \in DOMAIN df : InRange(df[j].Date, date_range)}}

\* C24: under a selected date range the options of each of the four
\* category filters are exactly the values of the rows inside the range, so
\* nothing else can be selected; and with every option selected the view is
\* the date-filtered subset, the rows without a downtime reason included.
C24_OptionsFromRange ==
  pc = "filtered" =>
    /\ Len(date_range) = 2 =>
         \A c \in {"Shift", "Product_Name", "Machine_Operator_ID",
                   "Downtime_Reason"} :
           /\ Options(date_filtered)[c] = ValuesInRange(c)
           /\ selected[c] \subseteq ValuesInRange(c)
    /\ selected = Options(date_filtered) =>
         /\ view = date_filtered
         /\ Len(date_range) = 2 =>
              view = SelectRows(df, {r \in Range(df) :
                                       InRange(r.Date, date_range)})

\* a range that leaves out a row with a shift of its own and keeps a row
\* without a downtime reason, every option selected
C24_Witness ==
  /\ pc = "filtered"
  /\ Len(date_range) = 2
  /\ \E i \in DOMAIN df :
       /\ ~InRange(df[i].Date, date_range)
       /\ df[i].Shift \notin ValuesInRange("Shift")
  /\ selected = Options(date_filtered)
  /\ \E i \in DOMAIN view : view[i].Downtime_Reason = Null

\* the downtime minutes of the rows of the view whose reason is r (r may be
\* the missing value)
ReasonMinutes(r) ==
  SumCol(RowsWith(view, "Downtime_Reason", r), "Downtime_Minutes")

ViewReasons == {view[i].Downtime_Reason : i \in DOMAIN view}

\* the reasons of the view, the missing one included, that no other reason
\* exceeds in downtime minutes
TopReasons ==
  {r \in ViewReasons :
     \A q \in ViewReasons : ReasonMinutes(r) >= ReasonMinutes(q)}

\* the names the downtime recommendation is filled with
FocusNames ==
  {recommendations[i].name :
     i \in {j \in DOMAIN recommendations :
              recommendations[j].text = FocusDowntime}}

\* C25: whenever the view has downtime, the downtime recommendation is made
\* and names a reason with the largest summed Downtime_Minutes, never the
\* placeholder, also when the minutes belong to rows without a reason.
C25_TopReasonNamed ==
  (pc = "aggs" /\ metrics.total_downtime > 0) =>
    /\ FocusNames # {}
    /\ \A n \in FocusNames :
         /\ n # "unknown causes"
         /\ \/ n \in TopReasons
            \/ Null \in TopReasons /\ n \notin ViewReasons

\* the index labels of the dataset before and after the step
LabelsBefore == {df_index[i] : i \in DOMAIN df_index}
LabelsAfter == {df_index'[i] : i \in DOMAIN df_index'}

\* some record appended by the step carries the Row_ID id
RowCovered(id) ==
  \E k \in DOMAIN Appended : Appended[k].row_id = ToCsv("Row_ID", id)

\* some record appended by the step is about column c of the row that had
\* or has the Row_ID id
CellCovered(ids, c) ==
  \E k \in DOMAIN Appended :
    /\ Appended[k].column_name = c
    /\ \E id \in ids : Appended[k].row_id = ToCsv("Row_ID", id)

\* C26: on the editor page the dataset changes only in a step that appends
\* audit records, and every difference between the old and the new dataset
\* is covered by a record of that step: a removed row and an added row by a
\* record with its Row_ID, a changed cell by a record with its row and
\* column.
C26_EveryDifferenceAudited ==
  [][(page = "Data Editor" /\ page' = page /\ df' # df) =>
       /\ Appended # <<>>
       /\ \A l \in LabelsBefore \ LabelsAfter :
            RowCovered(Loc(df, df_index, l).Row_ID)
       /\ \A l \in LabelsAfter \ LabelsBefore :
            RowCovered(Loc(df', df_index', l).Row_ID)
       /\ \A l \in LabelsBefore \cap LabelsAfter :
            \A c \in DOMAIN AddedRow :
              Loc(df, df_index, l)[c] # Loc(df', df_index', l)[c] =>
                CellCovered({Loc(df, df_index, l).Row_ID,
                             Loc(df', df_index', l).Row_ID}, c)]_vars

\* the roles in rising order of privilege
RoleLevel == ("Viewer" :> 1) @@ ("Analyst" :> 2) @@ ("Admin" :> 3)

\* the least role of each page other than Login
RequiredRole ==
  [l \in {"Dashboard"} |-> "Viewer"]
  @@ [l \in {"AI Chatbot (Beta)", "Load & Manage Dataset", "Reports",
             "Export Database"} |-> "Analyst"]
  @@ [l \in {"Data Editor", "Audit Logs"} |-> "Admin"]

\* C27: while nobody is logged in the current page is Login; a page other
\* than Login is current only while the role of the logged-in user is at
\* least the role the page requires; in particular the loader page is never
\* current for a Viewer.
C27_PageWithinRole ==
  /\ ~logged_in => page = "Login"
  /\ page # "Login" =>
       /\ logged_in
       /\ page \in DOMAIN RequiredRole
       /\ RoleLevel[user_info.role] >= RoleLevel[RequiredRole[page]]
  /\ (logged_in /\ user_info.role = "Viewer") =>
       page # "Load & Manage Dataset"

\* an Analyst has loaded a dataset and is on the loader page
C27_Witness ==
  /\ logged_in
  /\ user_info.role = "Analyst"
  /\ page = "Load & Manage Dataset"
  /\ df # <<>>

\* C28: once the user has logged out, and until the next login, nobody is
\* logged in, user_info is empty, the session holds no dataset, the page is
\* Login, and nothing of the previous user is left in the session: neither
\* the dataset nor the chat history.
C28_LogoutClearsSession ==
  ~logged_in =>
    /\ user_info = None
    /\ df = <<>>
    /\ page = "Login"
    /\ messages = None

\* C29: whatever the order of the steps of the log_edit calls of two
\* sessions on a log that did not exist, the file is one header line
\* followed by records only: the header is not written a second time and
\* every other line is a complete record.
C29_HeaderWrittenOnce ==
  audit_file # <<>> =>
    /\ audit_file[1] = AuditHeader
    /\ \A k \in 2..Len(audit_file) :
         /\ audit_file[k] # AuditHeader
         /\ audit_file[k].user = SessionUser

\* the day of the Monday of the Monday-to-Sunday week of a timestamp
MondayOf(t) == Day(t) - (Day(t) % DaysPerWeek)

\* the units made by the rows of the view in the week that starts on the
\* day monday
UnitsOfWeek(monday) ==
  SumCol(SelectRows(view, {r \in Range(view) : MondayOf(r.Date) = monday}),
         "Actual_Production_Units")

====
